---------------------------- MODULE Spec2Model ----------------------------
(***************************************************************************)
(* Generic-table CRUD handlers of penerbit-lidan (Cloudflare Pages         *)
(* functions over a D1/SQLite datastore).                                  *)
(*                                                                         *)
(*   coll  : src/unnamed/part_000            list/create, auto-create      *)
(*   item  : src/functions/api/contacts/[id].js  get/update/delete,        *)
(*           auto-create                                                   *)
(*   coll2 : src/functions/api/contacts2.js  list/create,                  *)
(*           reject-if-missing                                             *)
(*                                                                         *)
(* JavaScript runs a handler without interruption between two awaits, so   *)
(* one action is: the datastore executes the statement a handler run is    *)
(* waiting on, and the run continues up to its next datastore call or to   *)
(* its response.  Handler runs of different requests interleave at these   *)
(* points only.                                                            *)
(***************************************************************************)
EXTENDS Integers, Sequences, FiniteSets, TLC

VARIABLES
    db,        \* datastore binding -> (table name -> [rows, seq])
    variant,   \* the endpoint implementation this deployment serves
    sqlNames,  \* every table name that has appeared in the text of an issued statement
    run,       \* handler run of each request slot
    ev,        \* what the last step did: the response it sent, or the provisioning it ran
    alone,     \* no other run has been in flight since the run in flight was received
    deleted,   \* <<table, id>> of every row a DELETE statement removed
    soloCreate,\* the create that just provisioned a table and ran alone, if any
    name,      \* validator harness: the string under test
    verdict    \* validator harness: <<>>, or <<isValidTableName(name)>>

vars == <<db, variant, sqlNames, run, ev, alone, deleted, soloCreate, name, verdict>>

---------------------------------------------------------------------------
(* Bounds *)

MaxRows == 2          \* rows inserted into one table in one behaviour
MaxId == 1            \* largest id a request's path names
ShortLen == 2         \* validator harness: free characters of a name
MaxPad == 51          \* validator harness: longest padded name

(* Program constants *)

MaxNameLen == 50      \* tableName.length <= 50
NumFields == 20       \* for (let i = 1; i <= 20; i++)

---------------------------------------------------------------------------
(* TableNameValidator: /^[a-zA-Z_][a-zA-Z0-9_]*$/.test(s) && s.length <= 50 *)
(* A string is a sequence of one-character strings.                        *)

Lower == {"a", "b", "c", "d", "e", "f", "g", "h", "i", "j", "k", "l", "m",
          "n", "o", "p", "q", "r", "s", "t", "u", "v", "w", "x", "y", "z"}
Upper == {"A", "B", "C", "D", "E", "F", "G", "H", "I", "J", "K", "L", "M",
          "N", "O", "P", "Q", "R", "S", "T", "U", "V", "W", "X", "Y", "Z"}
Digit == {"0", "1", "2", "3", "4", "5", "6", "7", "8", "9"}

\* [a-zA-Z_]
HeadClass == Lower \cup Upper \cup {"_"}
\* [a-zA-Z0-9_]
TailClass == Lower \cup Upper \cup Digit \cup {"_"}

\* The matcher at position i of s, having consumed s[1..i-1]: the head class
\* consumes position 1, the starred tail class every later position, and $
\* accepts only at the end of the input (no m flag).
RECURSIVE RegexFrom(_, _)
RegexFrom(s, i) ==
    IF i > Len(s) THEN i > 1
    ELSE /\ s[i] \in (IF i = 1 THEN HeadClass ELSE TailClass)
         /\ RegexFrom(s, i + 1)

RegexTest(s) == RegexFrom(s, 1)

\* The pattern without its end anchor: a valid head is enough.
isValidTableName_Unanchored(tableName) ==
    /\ Len(tableName) >= 1
    /\ tableName[1] \in HeadClass
    /\ Len(tableName) <= MaxNameLen

\* The length test alone, without the pattern.
isValidTableName_LengthOnly(tableName) == Len(tableName) <= MaxNameLen

isValidTableName(tableName) ==
    RegexTest(tableName) /\ Len(tableName) <= MaxNameLen

---------------------------------------------------------------------------
(* Values, payloads and the RowCodec loop *)

\* SQL NULL / JSON null.  Text values are drawn from Texts, so it is no text.
Null == "NULL"
Texts == {"a", "b", "c"}

\* i.toString().padStart(2, '0')
padStart2(i) == IF Len(ToString(i)) < 2 THEN "0" \o ToString(i) ELSE ToString(i)

\* The field name without the zero padding.
colName_NoPad(i) == "x_" \o ToString(i)

\* `x_${colNum}`
colName(i) == "x_" \o padStart2(i)

\* The column names by index, and as a set.
Columns == [i \in 1..NumFields |-> colName(i)]
ColNames == {Columns[i] : i \in 1..NumFields}

\* A membership test that takes a key with a null value for an absent one.
hasOwnProperty_NotNull(obj, key) ==
    \E k \in 1..Len(obj) : obj[k][1] = key /\ obj[k][2] # "NULL"

\* A parsed JSON object is the sequence of its <<key, value>> members in
\* insertion order; the keys of one object are distinct.
hasOwnProperty(obj, key) == \E k \in 1..Len(obj) : obj[k][1] = key
GetValue(obj, key) == obj[CHOOSE k \in 1..Len(obj) : obj[k][1] = key][2]

\* The loop over i = 1..20 of createContact and handleUpdate, from index i on:
\* the columns present in the payload and their values, in index order.
RECURSIVE EncodeFrom(_, _)
EncodeFrom(data, i) ==
    IF i > NumFields THEN [columns |-> <<>>, values |-> <<>>]
    ELSE LET rest == EncodeFrom(data, i + 1) IN
         IF hasOwnProperty(data, Columns[i])
         THEN [columns |-> <<Columns[i]>> \o rest.columns,
               values  |-> <<GetValue(data, Columns[i])>> \o rest.values]
         ELSE rest

\* The loop started at i = 2.
Encode_FromTwo(data) == EncodeFrom(data, 2)

\* The recognized fields in the key order of the payload.
Encode_KeyOrder(data) ==
    LET keep == SelectSeq(data, LAMBDA kv : kv[1] \in ColNames) IN
    [columns |-> [i \in 1..Len(keep) |-> keep[i][1]],
     values  |-> [i \in 1..Len(keep) |-> keep[i][2]]]

Encode(data) == EncodeFrom(data, 1)

---------------------------------------------------------------------------
(* The datastore (D1 / SQLite), as the statements of the handlers use it.  *)
(* A database is a function from the names of its tables to [rows, seq]:   *)
(* rows maps each id_x present to the row's x_01..x_20, seq is the         *)
(* AUTOINCREMENT counter of the table (sqlite_sequence).                   *)
(* A statement yields the record the handlers read from run(), all() and   *)
(* first(): fault is the message of the error it throws ("" for none),    *)
(* last_row_id is result.meta.last_row_id, changes is result.changes.     *)

DBs == {"DB_PENERBIT", "DB_LATIHAN1"}

NoRows == [i \in {} |-> Null]
EmptyTable == [rows |-> NoRows, seq |-> 0]
NullRow == [c \in ColNames |-> Null]

\* SELECT name FROM sqlite_master WHERE type='table' AND name=?
TableExists(D, t) == t \in DOMAIN D

\* A statement whose text names a table the catalog does not hold.
NoSuchTable(D, t) == t \notin DOMAIN D

\* A CREATE TABLE that seeds the new table with a row.
CreateTableSql_Seeded(D, t) ==
    IF t \in DOMAIN D
    THEN [db |-> D, fault |-> ""]
    ELSE [db |-> [n \in DOMAIN D \cup {t} |->
                     IF n = t THEN [rows |-> [i \in {1} |-> NullRow], seq |-> 1]
                     ELSE D[n]],
          fault |-> ""]

\* CREATE TABLE IF NOT EXISTS t (id_x INTEGER PRIMARY KEY AUTOINCREMENT, x_01 TEXT, ...)
CreateTableSql(D, t) ==
    IF t \in DOMAIN D
    THEN [db |-> D, fault |-> ""]
    ELSE [db |-> [n \in DOMAIN D \cup {t} |-> IF n = t THEN EmptyTable ELSE D[n]],
          fault |-> ""]

\* The row an INSERT (columns) VALUES (?...) stores: unnamed columns are NULL.
RowOf(columns, values) ==
    [c \in ColNames |->
        IF \E k \in 1..Len(columns) : columns[k] = c
        THEN values[CHOOSE k \in 1..Len(columns) : columns[k] = c]
        ELSE Null]

\* An INSERT into a table declared without AUTOINCREMENT: the new id is one
\* more than the largest id present.
InsertSql_MaxRowid(D, t, columns, values) ==
    IF NoSuchTable(D, t)
    THEN [db |-> D, fault |-> "no such table", last_row_id |-> 0]
    ELSE LET had == DOMAIN D[t].rows
             newId == IF had = {} THEN 1
                      ELSE (CHOOSE m \in had : \A n \in had : n <= m) + 1
         IN [db |-> [D EXCEPT ![t] =
                        [rows |-> [i \in had \cup {newId} |->
                                      IF i = newId THEN RowOf(columns, values)
                                      ELSE D[t].rows[i]],
                         seq |-> D[t].seq + 1]],
             fault |-> "", last_row_id |-> newId]

\* INSERT INTO t (columns) VALUES (?...): the row gets the next AUTOINCREMENT id.
InsertSql(D, t, columns, values) ==
    IF NoSuchTable(D, t)
    THEN [db |-> D, fault |-> "no such table", last_row_id |-> 0]
    ELSE LET newId == D[t].seq + 1
             had == DOMAIN D[t].rows
         IN [db |-> [D EXCEPT ![t] =
                        [rows |-> [i \in had \cup {newId} |->
                                      IF i = newId THEN RowOf(columns, values)
                                      ELSE D[t].rows[i]],
                         seq |-> newId]],
             fault |-> "", last_row_id |-> newId]

\* UPDATE t SET c1 = ?, ..., without the WHERE clause.
UpdateSql_NoWhere(D, t, columns, values, id) ==
    IF NoSuchTable(D, t) THEN [db |-> D, fault |-> "no such table", changes |-> 0]
    ELSE [db |-> [D EXCEPT ![t].rows =
                    [i \in DOMAIN @ |->
                        [c \in ColNames |->
                            IF \E k \in 1..Len(columns) : columns[k] = c
                            THEN values[CHOOSE k \in 1..Len(columns) : columns[k] = c]
                            ELSE @[i][c]]]],
          fault |-> "", changes |-> Cardinality(DOMAIN D[t].rows)]

\* An UPDATE that raises a fault when no row matches.
UpdateSql_FaultIfMissing(D, t, columns, values, id) ==
    IF NoSuchTable(D, t) THEN [db |-> D, fault |-> "no such table", changes |-> 0]
    ELSE IF id \notin DOMAIN D[t].rows THEN [db |-> D, fault |-> "no such row", changes |-> 0]
    ELSE [db |-> [D EXCEPT ![t].rows[id] =
                    [c \in ColNames |->
                        IF \E k \in 1..Len(columns) : columns[k] = c
                        THEN values[CHOOSE k \in 1..Len(columns) : columns[k] = c]
                        ELSE @[c]]],
          fault |-> "", changes |-> 1]

\* An UPDATE that rewrites the whole row from the payload: the columns not
\* named are reset to NULL.
UpdateSql_WholeRow(D, t, columns, values, id) ==
    IF NoSuchTable(D, t) THEN [db |-> D, fault |-> "no such table", changes |-> 0]
    ELSE IF id \notin DOMAIN D[t].rows THEN [db |-> D, fault |-> "", changes |-> 0]
    ELSE [db |-> [D EXCEPT ![t].rows[id] = RowOf(columns, values)],
          fault |-> "", changes |-> 1]

\* UPDATE t SET c1 = ?, ... WHERE id_x = ?
UpdateSql(D, t, columns, values, id) ==
    IF NoSuchTable(D, t) THEN [db |-> D, fault |-> "no such table", changes |-> 0]
    ELSE IF id \notin DOMAIN D[t].rows THEN [db |-> D, fault |-> "", changes |-> 0]
    ELSE [db |-> [D EXCEPT ![t].rows[id] =
                    [c \in ColNames |->
                        IF \E k \in 1..Len(columns) : columns[k] = c
                        THEN values[CHOOSE k \in 1..Len(columns) : columns[k] = c]
                        ELSE @[c]]],
          fault |-> "", changes |-> 1]

\* DELETE FROM t, without the WHERE clause.
DeleteSql_NoWhere(D, t, id) ==
    IF NoSuchTable(D, t) THEN [db |-> D, fault |-> "no such table", changes |-> 0]
    ELSE [db |-> [D EXCEPT ![t].rows = NoRows],
          fault |-> "", changes |-> Cardinality(DOMAIN D[t].rows)]

\* A DELETE that raises a fault when no row matches.
DeleteSql_FaultIfMissing(D, t, id) ==
    IF NoSuchTable(D, t) THEN [db |-> D, fault |-> "no such table", changes |-> 0]
    ELSE IF id \notin DOMAIN D[t].rows THEN [db |-> D, fault |-> "no such row", changes |-> 0]
    ELSE [db |-> [D EXCEPT ![t].rows = [i \in DOMAIN @ \ {id} |-> @[i]]],
          fault |-> "", changes |-> 1]

\* DELETE FROM t WHERE id_x = ?
DeleteSql(D, t, id) ==
    IF NoSuchTable(D, t) THEN [db |-> D, fault |-> "no such table", changes |-> 0]
    ELSE IF id \notin DOMAIN D[t].rows THEN [db |-> D, fault |-> "", changes |-> 0]
    ELSE [db |-> [D EXCEPT ![t].rows = [i \in DOMAIN @ \ {id} |-> @[i]]],
          fault |-> "", changes |-> 1]

\* A result row: the column-to-value mapping the datastore returns.
ResultRow(D, t, i) == [id_x |-> i, x |-> D[t].rows[i]]

Max(S) == CHOOSE m \in S : \A n \in S : n <= m

\* ... ORDER BY id_x ASC over the ids in S
RECURSIVE OrderDesc_Asc(_, _, _)
OrderDesc_Asc(D, t, S) ==
    IF S = {} THEN <<>>
    ELSE OrderDesc_Asc(D, t, S \ {Max(S)}) \o <<ResultRow(D, t, Max(S))>>

\* ... ORDER BY id_x DESC over the ids in S
RECURSIVE OrderDesc(_, _, _)
OrderDesc(D, t, S) ==
    IF S = {} THEN <<>>
    ELSE <<ResultRow(D, t, Max(S))>> \o OrderDesc(D, t, S \ {Max(S)})

\* SELECT * FROM t ORDER BY id_x DESC  (.all())
SelectAllSql(D, t) ==
    IF NoSuchTable(D, t) THEN [fault |-> "no such table", results |-> <<>>]
    ELSE [fault |-> "", results |-> OrderDesc(D, t, DOMAIN D[t].rows)]

\* A SELECT that finds no row, instead of a fault, when the table is absent.
SelectOneSql_NoFault(D, t, id) ==
    IF NoSuchTable(D, t) THEN [fault |-> "", results |-> <<>>]
    ELSE IF id \in DOMAIN D[t].rows
         THEN [fault |-> "", results |-> <<ResultRow(D, t, id)>>]
         ELSE [fault |-> "", results |-> <<>>]

\* SELECT ... FROM t WHERE id_x = ?  (.first()): <<>> stands for null, no row.
SelectOneSql(D, t, id) ==
    IF NoSuchTable(D, t) THEN [fault |-> "no such table", results |-> <<>>]
    ELSE IF id \in DOMAIN D[t].rows
         THEN [fault |-> "", results |-> <<ResultRow(D, t, id)>>]
         ELSE [fault |-> "", results |-> <<>>]

---------------------------------------------------------------------------
(* Requests, handler runs and responses *)

\* Table names a request may select (after the 'contacts' default is applied).
T == <<"t">>                 \* valid; absent from DB_PENERBIT at the start
U == <<"u">>                 \* valid; never in DB_LATIHAN1
TBad == <<"t", ";">>         \* fails validation

\* params.id: NoId stands for an absent path parameter (!id); the datastore
\* compares a present one with the INTEGER column id_x.
NoId == 0 - 1
Ids == {NoId} \cup (1..MaxId)

\* request.headers.get('content-type'): "" stands for null (no header).
\* A Content-Type header value is the sequence of the pieces it is written
\* from; NoHeader is the value of headers.get for an absent header.
NoHeader == <<>>
TextPlain == <<"text/plain">>
AppJson == <<"application/json">>
AppJsonCharset == <<"application/json", "; charset=utf-8">>
ContentTypes == {NoHeader, TextPlain, AppJson, AppJsonCharset}
\* A test that any non-empty header passes.
includes_Any(contentType, piece) == Len(contentType) > 0

\* contentType.includes(piece)
includes(contentType, piece) == \E i \in 1..Len(contentType) : contentType[i] = piece

\* A request body: json says whether JSON.parse / request.json() accepts it,
\* obj is the parsed object.
NoBody == [json |-> FALSE, obj |-> <<>>]
Obj(o) == [json |-> TRUE, obj |-> o]
EmptyObject == Obj(<<>>)
UnknownKeys == Obj(<< <<"x_00", "a">>, <<"x_21", "a">>, <<"x_1", "a">>, <<"X_01", "a">> >>)
OnlyX03 == Obj(<< <<"x_03", "c">> >>)
X05NoteX01 == Obj(<< <<"x_05", "b">>, <<"note", "c">>, <<"x_01", "a">> >>)
NullX03 == Obj(<< <<"x_03", Null>> >>)
NullX03WithX01 == Obj(<< <<"x_03", Null>>, <<"x_01", "a">> >>)
\* The bodies a POST and a PUT are tried with.
PostPayloads == {NoBody, EmptyObject, UnknownKeys, OnlyX03, X05NoteX01, NullX03WithX01}
PutPayloads == {NoBody, EmptyObject, OnlyX03, X05NoteX01, NullX03}

\* The bindings the deployment provides (env.DB_PENERBIT, env.DB_LATIHAN1).
Env == DBs

Slots == {1, 2}

NoVal == 0 - 1
NoResp == [status |-> 0, success |-> FALSE, error |-> <<>>, changes |-> NoVal,
           id_x |-> NoVal, count |-> NoVal, data |-> <<>>, fields |-> <<>>]
\* new Response(null, { headers }): status 200, no body
EmptyResp == [NoResp EXCEPT !.status = 200]
\* JSON.stringify({ error: ... }) with a status
ErrorResp(status, error) == [NoResp EXCEPT !.status = status, !.error = error]
\* JSON.stringify({ success: true, ... }): status 200
OkResp == [NoResp EXCEPT !.status = 200, !.success = TRUE]

\* A handler run.  pc names the datastore statement the run awaits; "Unread"
\* marks a header or body the handler has not read yet.
Unread == <<"unread">>
IdleRun == [pc |-> "idle", ep |-> "", method |-> "", table |-> <<>>, id |-> NoId,
            ctype |-> Unread, body |-> NoBody, tableCheck |-> FALSE,
            stmts |-> {}, goneAtRecv |-> FALSE, resp |-> NoResp]

NewRun(ep, method, table, id) ==
    [IdleRun EXCEPT !.pc = "recv", !.ep = ep, !.method = method, !.table = table,
                    !.id = id]

\* The binding each endpoint uses.
DbOf(ep) == IF ep \in {"coll2", "item1"} THEN "DB_LATIHAN1" ELSE "DB_PENERBIT"

\* The statements whose SQL text is built with the table name interpolated.
TextKinds == {"createTable", "selectAll", "selectOne", "exists", "insert",
              "update", "delete"}

\* DB.prepare(...).run() / .first() / .all(): the run now awaits that statement.
Issue(rn, kind) == [rn EXCEPT !.pc = kind, !.stmts = @ \cup {kind}]
\* A handler that never returns its response: the run keeps awaiting.
Respond_Never(rn, resp) == rn

\* return new Response(...)
Respond(rn, resp) == [rn EXCEPT !.pc = "done", !.resp = resp]
\* throw new Error(message), or a fault raised by an awaited datastore call
Throw(rn, message) == [rn EXCEPT !.pc = "throw", !.resp = ErrorResp(0, <<message>>)]
\* A catch that answers success.
CatchRespond_Swallow(rn, status, prefix) ==
    IF rn.pc = "throw" THEN Respond(rn, OkResp) ELSE rn

\* catch (error) { return new Response({ error: prefix + error.message }, status) }
CatchRespond(rn, status, prefix) ==
    IF rn.pc = "throw" THEN Respond(rn, ErrorResp(status, prefix \o rn.resp.error)) ELSE rn
\* catch (dbError) { throw new Error(prefix + dbError.message) }
CatchRethrow(rn, prefix) ==
    IF rn.pc = "throw" THEN [rn EXCEPT !.resp.error = prefix \o @] ELSE rn

---------------------------------------------------------------------------
(* The handlers.  Each operator is one function of the source as a state    *)
(* machine over the run's pc: given the run and the database at the moment *)
(* the awaited statement executes, it yields the run at its next await (or *)
(* its response) and the database the statement leaves.                    *)

\* CREATE TABLE without IF NOT EXISTS: an existing table is a fault.
createTableIfNotExists_Plain(D, tableName) ==
    IF tableName \in DOMAIN D
    THEN [db |-> D, fault |-> "table already exists"]
    ELSE CreateTableSql(D, tableName)

\* createTableIfNotExists (both auto-create files hold the same text)
createTableIfNotExists(D, tableName) == CreateTableSql(D, tableName)

\* The table check without the provisioning that follows an absent table.
Provisioning_NoCreate(rn, D) ==
    CASE rn.pc = "recv" ->
            [run |-> Issue(rn, "tableCheck"), db |-> D, ready |-> FALSE]
      [] OTHER ->
            [run |-> [rn EXCEPT !.tableCheck = TableExists(D, rn.table)],
             db |-> D, ready |-> TRUE]

\* The table check and provisioning that open the five auto-create handlers:
\*   const tableCheck = await DB.prepare(`SELECT name FROM sqlite_master ...`).bind(tableName).first();
\*   if (!tableCheck) { await createTableIfNotExists(DB, tableName); }
\* ready says that the handler goes on past them in this step.
Provisioning(rn, D) ==
    CASE rn.pc = "recv" ->
            [run |-> Issue(rn, "tableCheck"), db |-> D, ready |-> FALSE]
      [] rn.pc = "tableCheck" ->
            IF TableExists(D, rn.table)
            THEN [run |-> [rn EXCEPT !.tableCheck = TRUE], db |-> D, ready |-> TRUE]
            ELSE [run |-> Issue(rn, "createTable"), db |-> D, ready |-> FALSE]
      [] rn.pc = "createTable" ->
            LET c == createTableIfNotExists(D, rn.table) IN
            IF c.fault # ""
            THEN [run |-> Throw(rn, c.fault), db |-> c.db, ready |-> FALSE]
            ELSE [run |-> rn, db |-> c.db, ready |-> TRUE]

ProvisionPcs == {"recv", "tableCheck", "createTable"}

\* part_000: getContacts
getContacts(rn, D) ==
    LET body ==
          IF rn.pc \in ProvisionPcs
          THEN LET p == Provisioning(rn, D) IN
               [run |-> IF p.ready THEN Issue(p.run, "selectAll") ELSE p.run, db |-> p.db]
          ELSE \* rn.pc = "selectAll"
               LET q == SelectAllSql(D, rn.table) IN
               IF q.fault # "" THEN [run |-> Throw(rn, q.fault), db |-> D]
               ELSE [run |-> Respond(rn, [OkResp EXCEPT !.count = Len(q.results),
                                                        !.data = q.results]),
                     db |-> D]
    IN [body EXCEPT !.run = CatchRespond(@, 400, <<"Failed to get data from table">>)]

\* part_000: createContact.  The inner catch rethrows to onRequest.
createContact(rn0, D, requestData) ==
    LET rn == IF rn0.pc = "recv" THEN [rn0 EXCEPT !.body = requestData] ELSE rn0
        e == Encode(rn.body.obj)
        body ==
          IF rn.pc = "recv" /\ ~rn.body.json
          THEN [run |-> Throw(rn, "Invalid JSON data"), db |-> D]
          ELSE LET inner ==
                 IF rn.pc \in ProvisionPcs
                 THEN LET p == Provisioning(rn, D) IN
                      [run |-> IF ~p.ready THEN p.run
                               ELSE IF Len(e.columns) = 0
                               THEN Throw(p.run, "At least one field (x_01 to x_20) is required")
                               ELSE Issue(p.run, "insert"),
                       db |-> p.db]
                 ELSE \* rn.pc = "insert"
                      LET ins == InsertSql(D, rn.table, e.columns, e.values) IN
                      IF ins.fault # "" THEN [run |-> Throw(rn, ins.fault), db |-> ins.db]
                      ELSE [run |-> Respond(rn, [OkResp EXCEPT !.id_x = ins.last_row_id,
                                                               !.fields = e.columns]),
                            db |-> ins.db]
               IN [inner EXCEPT !.run = CatchRethrow(@, <<"Failed to save record to table">>)]
    IN body

\* onRequest of part_000 provisioning the table on its way to the
\* method-not-allowed response.
onRequest_ProvisionFirst(rn, D, body) ==
    LET res ==
          IF rn.pc = "recv" /\ rn.method = "OPTIONS"
          THEN [run |-> Respond(rn, EmptyResp), db |-> D]
          ELSE IF rn.pc = "recv" /\ ~isValidTableName(rn.table)
          THEN [run |-> Respond(rn, ErrorResp(400,
                    <<"Invalid table name. Only alphanumeric characters and underscores allowed.">>)),
                db |-> D]
          ELSE IF rn.method = "GET" THEN getContacts(rn, D)
          ELSE IF rn.method = "POST" THEN createContact(rn, D, body)
          ELSE [run |-> Respond(rn, ErrorResp(405, <<"Method not allowed">>)),
                db |-> createTableIfNotExists(D, rn.table).db]
    IN [res EXCEPT !.run = CatchRespond(@, 500, <<>>)]

\* part_000: onRequest, from the dispatch on
onRequest(rn, D, body) ==
    LET res ==
          IF rn.pc = "recv" /\ rn.method = "OPTIONS"
          THEN [run |-> Respond(rn, EmptyResp), db |-> D]
          ELSE IF rn.pc = "recv" /\ ~isValidTableName(rn.table)
          THEN [run |-> Respond(rn, ErrorResp(400,
                    <<"Invalid table name. Only alphanumeric characters and underscores allowed.">>)),
                db |-> D]
          ELSE IF rn.method = "GET" THEN getContacts(rn, D)
          ELSE IF rn.method = "POST" THEN createContact(rn, D, body)
          ELSE [run |-> Respond(rn, ErrorResp(405, <<"Method not allowed">>)), db |-> D]
    IN [res EXCEPT !.run = CatchRespond(@, 500, <<>>)]

\* [id].js: handleGetSingle
handleGetSingle(rn, D) ==
    LET body ==
          IF rn.pc \in ProvisionPcs
          THEN LET p == Provisioning(rn, D) IN
               [run |-> IF p.ready THEN Issue(p.run, "selectOne") ELSE p.run, db |-> p.db]
          ELSE \* rn.pc = "selectOne"
               LET q == SelectOneSql(D, rn.table, rn.id) IN
               IF q.fault # "" THEN [run |-> Throw(rn, q.fault), db |-> D]
               ELSE IF q.results = <<>>
               THEN [run |-> Respond(rn, ErrorResp(404, <<"Record not found in table">>)),
                     db |-> D]
               ELSE [run |-> Respond(rn, [OkResp EXCEPT !.data = q.results]), db |-> D]
    IN [body EXCEPT !.run = CatchRespond(@, 400, <<"Get failed from table">>)]

\* handleUpdate with the field check moved before the existence check.
handleUpdate_FieldsFirst(rn, D, contentType, body) ==
    LET e == Encode(rn.body.obj)
        read(r0) ==
          IF contentType = NoHeader \/ ~includes(contentType, "application/json")
          THEN Throw([r0 EXCEPT !.ctype = contentType],
                     "Content-Type must be application/json")
          ELSE IF ~body.json
          THEN Throw([r0 EXCEPT !.ctype = contentType, !.body = body], "SyntaxError")
          ELSE IF Len(Encode(body.obj).columns) = 0
          THEN Throw([r0 EXCEPT !.ctype = contentType, !.body = body],
                     "At least one field (x_01 to x_20) is required for update")
          ELSE Issue([r0 EXCEPT !.ctype = contentType, !.body = body], "exists")
        res ==
          IF rn.pc \in ProvisionPcs
          THEN LET p == Provisioning(rn, D) IN
               [run |-> IF p.ready THEN read(p.run) ELSE p.run, db |-> p.db]
          ELSE IF rn.pc = "exists"
          THEN LET q == SelectOneSql(D, rn.table, rn.id) IN
               IF q.fault # "" THEN [run |-> Throw(rn, q.fault), db |-> D]
               ELSE IF q.results = <<>>
               THEN [run |-> Respond(rn, ErrorResp(404, <<"Record not found in table">>)),
                     db |-> D]
               ELSE [run |-> Issue(rn, "update"), db |-> D]
          ELSE \* rn.pc = "update"
               LET u == UpdateSql(D, rn.table, e.columns, e.values, rn.id) IN
               IF u.fault # "" THEN [run |-> Throw(rn, u.fault), db |-> u.db]
               ELSE [run |-> Respond(rn, [OkResp EXCEPT !.changes = u.changes,
                                                        !.fields = e.columns]),
                     db |-> u.db]
    IN [res EXCEPT !.run = CatchRespond(@, 400, <<"Update failed in table">>)]

\* [id].js: handleUpdate.  contentType and body are the header and the body
\* the handler reads once the table is provisioned.
handleUpdate(rn, D, contentType, body) ==
    LET e == Encode(rn.body.obj)
        read(r0) ==
          IF contentType = NoHeader \/ ~includes(contentType, "application/json")
          THEN Throw([r0 EXCEPT !.ctype = contentType],
                     "Content-Type must be application/json")
          ELSE IF ~body.json
          THEN Throw([r0 EXCEPT !.ctype = contentType, !.body = body], "SyntaxError")
          ELSE Issue([r0 EXCEPT !.ctype = contentType, !.body = body], "exists")
        res ==
          IF rn.pc \in ProvisionPcs
          THEN LET p == Provisioning(rn, D) IN
               [run |-> IF p.ready THEN read(p.run) ELSE p.run, db |-> p.db]
          ELSE IF rn.pc = "exists"
          THEN LET q == SelectOneSql(D, rn.table, rn.id) IN
               IF q.fault # "" THEN [run |-> Throw(rn, q.fault), db |-> D]
               ELSE IF q.results = <<>>
               THEN [run |-> Respond(rn, ErrorResp(404, <<"Record not found in table">>)),
                     db |-> D]
               ELSE IF Len(e.columns) = 0
               THEN [run |-> Throw(rn, "At least one field (x_01 to x_20) is required for update"),
                     db |-> D]
               ELSE [run |-> Issue(rn, "update"), db |-> D]
          ELSE \* rn.pc = "update"
               LET u == UpdateSql(D, rn.table, e.columns, e.values, rn.id) IN
               IF u.fault # "" THEN [run |-> Throw(rn, u.fault), db |-> u.db]
               ELSE [run |-> Respond(rn, [OkResp EXCEPT !.changes = u.changes,
                                                        !.fields = e.columns]),
                     db |-> u.db]
    IN [res EXCEPT !.run = CatchRespond(@, 400, <<"Update failed in table">>)]

\* [id].js: handleDelete
handleDelete(rn, D) ==
    LET body ==
          IF rn.pc \in ProvisionPcs
          THEN LET p == Provisioning(rn, D) IN
               [run |-> IF p.ready THEN Issue(p.run, "exists") ELSE p.run, db |-> p.db]
          ELSE IF rn.pc = "exists"
          THEN LET q == SelectOneSql(D, rn.table, rn.id) IN
               IF q.fault # "" THEN [run |-> Throw(rn, q.fault), db |-> D]
               ELSE IF q.results = <<>>
               THEN [run |-> Respond(rn, ErrorResp(404, <<"Record not found in table">>)),
                     db |-> D]
               ELSE [run |-> Issue(rn, "delete"), db |-> D]
          ELSE \* rn.pc = "delete"
               LET x == DeleteSql(D, rn.table, rn.id) IN
               IF x.fault # "" THEN [run |-> Throw(rn, x.fault), db |-> x.db]
               ELSE [run |-> Respond(rn, [OkResp EXCEPT !.changes = x.changes]), db |-> x.db]
    IN [body EXCEPT !.run = CatchRespond(@, 400, <<"Delete failed from table">>)]

\* onRequest of [id].js with the id check moved before the table name check.
onRequestId_IdFirst(rn, D, contentType, body) ==
    LET res ==
          IF rn.pc = "recv" /\ rn.method = "OPTIONS"
          THEN [run |-> Respond(rn, EmptyResp), db |-> D]
          ELSE IF rn.pc = "recv" /\ "DB_PENERBIT" \notin Env
          THEN [run |-> Respond(rn, ErrorResp(500, <<"Database not available">>)), db |-> D]
          ELSE IF rn.pc = "recv" /\ rn.id = NoId
          THEN [run |-> Respond(rn, ErrorResp(400, <<"No ID provided">>)), db |-> D]
          ELSE IF rn.pc = "recv" /\ ~isValidTableName(rn.table)
          THEN [run |-> Respond(rn, ErrorResp(400,
                    <<"Invalid table name. Only alphanumeric characters and underscores allowed.">>)),
                db |-> D]
          ELSE IF rn.method = "GET" THEN handleGetSingle(rn, D)
          ELSE IF rn.method = "PUT" THEN handleUpdate(rn, D, contentType, body)
          ELSE IF rn.method = "DELETE" THEN handleDelete(rn, D)
          ELSE [run |-> Respond(rn, ErrorResp(405, <<"Method not allowed">>)), db |-> D]
    IN [res EXCEPT !.run = CatchRespond(@, 500, <<"Server error">>)]

\* [id].js: onRequest
onRequestId(rn, D, contentType, body) ==
    LET res ==
          IF rn.pc = "recv" /\ rn.method = "OPTIONS"
          THEN [run |-> Respond(rn, EmptyResp), db |-> D]
          ELSE IF rn.pc = "recv" /\ "DB_PENERBIT" \notin Env
          THEN [run |-> Respond(rn, ErrorResp(500, <<"Database not available">>)), db |-> D]
          ELSE IF rn.pc = "recv" /\ ~isValidTableName(rn.table)
          THEN [run |-> Respond(rn, ErrorResp(400,
                    <<"Invalid table name. Only alphanumeric characters and underscores allowed.">>)),
                db |-> D]
          ELSE IF rn.pc = "recv" /\ rn.id = NoId
          THEN [run |-> Respond(rn, ErrorResp(400, <<"No ID provided">>)), db |-> D]
          ELSE IF rn.method = "GET" THEN handleGetSingle(rn, D)
          ELSE IF rn.method = "PUT" THEN handleUpdate(rn, D, contentType, body)
          ELSE IF rn.method = "DELETE" THEN handleDelete(rn, D)
          ELSE [run |-> Respond(rn, ErrorResp(405, <<"Method not allowed">>)), db |-> D]
    IN [res EXCEPT !.run = CatchRespond(@, 500, <<"Server error">>)]

\* A table check that provisions the missing table instead of answering 404.
RequireTable_Provision(rn, D) ==
    CASE rn.pc = "recv" ->
            [run |-> Issue(rn, "tableCheck"), db |-> D, ready |-> FALSE]
      [] rn.pc = "tableCheck" ->
            [run |-> [rn EXCEPT !.tableCheck = TableExists(D, rn.table)],
             db |-> CreateTableSql(D, rn.table), ready |-> TRUE]

\* contacts2.js: the table check of getContacts and createContact, which
\* answers 404 instead of provisioning.
RequireTable(rn, D) ==
    CASE rn.pc = "recv" ->
            [run |-> Issue(rn, "tableCheck"), db |-> D, ready |-> FALSE]
      [] rn.pc = "tableCheck" ->
            IF TableExists(D, rn.table)
            THEN [run |-> [rn EXCEPT !.tableCheck = TRUE], db |-> D, ready |-> TRUE]
            ELSE [run |-> Respond(rn, ErrorResp(404, <<"Table does not exist">>)),
                  db |-> D, ready |-> FALSE]

\* contacts2.js: getContacts
getContacts2(rn, D) ==
    LET body ==
          IF rn.pc \in ProvisionPcs
          THEN LET p == RequireTable(rn, D) IN
               [run |-> IF p.ready THEN Issue(p.run, "selectAll") ELSE p.run, db |-> p.db]
          ELSE \* rn.pc = "selectAll"
               LET q == SelectAllSql(D, rn.table) IN
               IF q.fault # "" THEN [run |-> Throw(rn, q.fault), db |-> D]
               ELSE [run |-> Respond(rn, [OkResp EXCEPT !.count = Len(q.results),
                                                        !.data = q.results]),
                     db |-> D]
    IN [body EXCEPT !.run = CatchRespond(@, 400, <<"Failed to get data from table">>)]

\* contacts2.js: createContact
createContact2(rn0, D, requestData) ==
    LET rn == IF rn0.pc = "recv" THEN [rn0 EXCEPT !.body = requestData] ELSE rn0
        e == Encode(rn.body.obj)
        body ==
          IF rn.pc = "recv" /\ ~rn.body.json
          THEN [run |-> Throw(rn, "Invalid JSON data"), db |-> D]
          ELSE LET inner ==
                 IF rn.pc \in ProvisionPcs
                 THEN LET p == RequireTable(rn, D) IN
                      [run |-> IF ~p.ready THEN p.run
                               ELSE IF Len(e.columns) = 0
                               THEN Throw(p.run, "At least one field (x_01 to x_20) is required")
                               ELSE Issue(p.run, "insert"),
                       db |-> p.db]
                 ELSE \* rn.pc = "insert"
                      LET ins == InsertSql(D, rn.table, e.columns, e.values) IN
                      IF ins.fault # "" THEN [run |-> Throw(rn, ins.fault), db |-> ins.db]
                      ELSE [run |-> Respond(rn, [OkResp EXCEPT !.id_x = ins.last_row_id,
                                                               !.fields = e.columns]),
                            db |-> ins.db]
               IN [inner EXCEPT !.run = CatchRethrow(@, <<"Failed to save record to table">>)]
    IN body

\* contacts2.js: onRequest (lines 2-58)
onRequest2(rn, D, body) ==
    LET res ==
          IF rn.pc = "recv" /\ rn.method = "OPTIONS"
          THEN [run |-> Respond(rn, EmptyResp), db |-> D]
          ELSE IF rn.pc = "recv" /\ ~isValidTableName(rn.table)
          THEN [run |-> Respond(rn, ErrorResp(400,
                    <<"Invalid table name. Only alphanumeric characters and underscores allowed.">>)),
                db |-> D]
          ELSE IF rn.method = "GET" THEN getContacts2(rn, D)
          ELSE IF rn.method = "POST" THEN createContact2(rn, D, body)
          ELSE [run |-> Respond(rn, ErrorResp(405, <<"Method not allowed">>)), db |-> D]
    IN [res EXCEPT !.run = CatchRespond(@, 500, <<>>)]

\* [id]1.js: the fixed-schema item endpoint.  Its statements name the table
\* contacts (id, name, email, message); there is no table parameter.
Contacts == <<"c", "o", "n", "t", "a", "c", "t", "s">>
ContactRow == [name |-> "a", email |-> "b", message |-> "c"]
ContactsTable == [rows |-> [i \in {1} |-> ContactRow], seq |-> 1]
FullContact == Obj(<< <<"name", "b">>, <<"email", "b">>, <<"message", "a">> >>)
NoEmailContact == Obj(<< <<"name", "b">>, <<"message", "a">> >>)
LegacyPayloads == {NoBody, FullContact, NoEmailContact}

\* const { name, email, message } = data: undefined for an absent key
Undefined == "undefined"
Destructure(data, key) == IF hasOwnProperty(data, key) THEN GetValue(data, key) ELSE Undefined
\* !value
Falsy(value) == value \in {Undefined, Null, ""}

\* UPDATE contacts SET name = ?, email = ?, message = ? WHERE id = ?
UpdateContactSql(D, name_, email, message, id) ==
    IF NoSuchTable(D, Contacts) THEN [db |-> D, fault |-> "no such table", changes |-> 0]
    ELSE IF id \notin DOMAIN D[Contacts].rows THEN [db |-> D, fault |-> "", changes |-> 0]
    ELSE [db |-> [D EXCEPT ![Contacts].rows[id] =
                    [name |-> name_, email |-> email, message |-> message]],
          fault |-> "", changes |-> 1]

\* [id]1.js: handleUpdate
handleUpdate1(rn, D, contentType, body) ==
    LET data == rn.body.obj
        res ==
          IF rn.pc = "recv"
          THEN [run |->
                  IF contentType = NoHeader \/ ~includes(contentType, "application/json")
                  THEN Throw([rn EXCEPT !.ctype = contentType],
                             "Content-Type must be application/json")
                  ELSE IF ~body.json
                  THEN Throw([rn EXCEPT !.ctype = contentType, !.body = body], "SyntaxError")
                  ELSE IF \/ Falsy(Destructure(body.obj, "name"))
                          \/ Falsy(Destructure(body.obj, "email"))
                          \/ Falsy(Destructure(body.obj, "message"))
                  THEN Throw([rn EXCEPT !.ctype = contentType, !.body = body],
                             "Missing required fields: name, email, message")
                  ELSE Issue([rn EXCEPT !.ctype = contentType, !.body = body], "exists"),
                db |-> D]
          ELSE IF rn.pc = "exists"
          THEN LET q == SelectOneSql(D, Contacts, rn.id) IN
               IF q.fault # "" THEN [run |-> Throw(rn, q.fault), db |-> D]
               ELSE IF q.results = <<>>
               THEN [run |-> Respond(rn, ErrorResp(404, <<"Contact not found">>)), db |-> D]
               ELSE [run |-> Issue(rn, "update"), db |-> D]
          ELSE \* rn.pc = "update"
               LET u == UpdateContactSql(D, Destructure(data, "name"),
                                         Destructure(data, "email"),
                                         Destructure(data, "message"), rn.id) IN
               IF u.fault # "" THEN [run |-> Throw(rn, u.fault), db |-> u.db]
               ELSE [run |-> Respond(rn, [OkResp EXCEPT !.changes = u.changes]),
                     db |-> u.db]
    IN [res EXCEPT !.run = CatchRespond(@, 400, <<"Update failed">>)]

\* [id]1.js: handleDelete
handleDelete1(rn, D) ==
    LET res ==
          IF rn.pc = "recv" THEN [run |-> Issue(rn, "exists"), db |-> D]
          ELSE IF rn.pc = "exists"
          THEN LET q == SelectOneSql(D, Contacts, rn.id) IN
               IF q.fault # "" THEN [run |-> Throw(rn, q.fault), db |-> D]
               ELSE IF q.results = <<>>
               THEN [run |-> Respond(rn, ErrorResp(404, <<"Contact not found">>)), db |-> D]
               ELSE [run |-> Issue(rn, "delete"), db |-> D]
          ELSE \* rn.pc = "delete"
               LET del == DeleteSql(D, Contacts, rn.id) IN
               IF del.fault # "" THEN [run |-> Throw(rn, del.fault), db |-> del.db]
               ELSE [run |-> Respond(rn, [OkResp EXCEPT !.changes = del.changes]),
                     db |-> del.db]
    IN [res EXCEPT !.run = CatchRespond(@, 400, <<"Delete failed">>)]

\* [id]1.js: onRequest
onRequestId1(rn, D, contentType, body) ==
    LET res ==
          IF rn.pc = "recv" /\ rn.method = "OPTIONS"
          THEN [run |-> Respond(rn, EmptyResp), db |-> D]
          ELSE IF rn.pc = "recv" /\ "DB_LATIHAN1" \notin Env
          THEN [run |-> Respond(rn, ErrorResp(500, <<"Database not available">>)), db |-> D]
          ELSE IF rn.pc = "recv" /\ rn.id = NoId
          THEN [run |-> Respond(rn, ErrorResp(400, <<"No ID provided">>)), db |-> D]
          ELSE IF rn.method = "PUT" THEN handleUpdate1(rn, D, contentType, body)
          ELSE IF rn.method = "DELETE" THEN handleDelete1(rn, D)
          ELSE [run |-> Respond(rn, ErrorResp(405, <<"Method not allowed">>)), db |-> D]
    IN [res EXCEPT !.run = CatchRespond(@, 500, <<"Server error">>)]

\* The handler a run belongs to.
Handler(rn, D, contentType, body) ==
    CASE rn.ep = "coll"  -> onRequest(rn, D, body)
      [] rn.ep = "item"  -> onRequestId(rn, D, contentType, body)
      [] rn.ep = "coll2" -> onRequest2(rn, D, body)
      [] rn.ep = "item1" -> onRequestId1(rn, D, contentType, body)

---------------------------------------------------------------------------
(* The state machine *)

\* The implementations of a route are alternatives; a deployment serves one
\* of them.  The auto-create collection route comes with the auto-create
\* item route; the fixed-schema item route stands alone.
Variants == {"auto-create", "reject-if-missing", "fixed-schema"}
EndpointsOf(v) ==
    IF v = "auto-create" THEN {"coll", "item"}
    ELSE IF v = "reject-if-missing" THEN {"coll2"}
    ELSE {"item1"}

\* The catalogs a deployment of variant v starts with: the generic variants
\* with table t in DB_LATIHAN1, the fixed-schema one with or without its
\* contacts table.
NoTables == [n \in {} |-> EmptyTable]
InitialDbs(v) ==
    IF v = "fixed-schema"
    THEN {[d \in DBs |-> IF d = "DB_LATIHAN1" THEN c ELSE NoTables] :
             c \in {NoTables, [n \in {Contacts} |-> ContactsTable]}}
    ELSE {[d \in DBs |-> IF d = "DB_LATIHAN1" THEN [n \in {T} |-> EmptyTable]
                                             ELSE NoTables]}

NoEvent == [stmt |-> "", responded |-> FALSE, run |-> IdleRun,
            existed |-> FALSE, hadRows |-> FALSE, solo |-> FALSE]
NoSolo == [table |-> <<>>, id_x |-> NoVal, body |-> NoBody]

InFlight(s) == run[s].pc # "idle"

Init ==
    /\ variant \in Variants
    /\ db \in InitialDbs(variant)
    /\ sqlNames = {}
    /\ run = [s \in Slots |-> IdleRun]
    /\ ev = NoEvent
    /\ alone = TRUE
    /\ deleted = {}
    /\ soloCreate = NoSolo
    /\ name = <<>>
    /\ verdict = <<>>

\* The header and the body a step of run rn reads from the request.
ReadsBody(rn) ==
    \/ /\ rn.ep \in {"coll", "coll2"} /\ rn.method = "POST" /\ rn.pc = "recv"
       /\ isValidTableName(rn.table)
    \/ /\ rn.ep = "item" /\ rn.method = "PUT"
       /\ \/ rn.pc = "createTable"
          \/ rn.pc = "tableCheck" /\ TableExists(db[DbOf(rn.ep)], rn.table)
ReadsHeader(rn) == rn.ep = "item" /\ ReadsBody(rn)
Inputs(rn) ==
    IF rn.ep = "item1"
    THEN IF rn.pc = "recv" /\ rn.method = "PUT" /\ rn.id # NoId
         THEN ({AppJson} \X LegacyPayloads) \cup ({NoHeader} \X {NoBody})
         ELSE {<<Unread, NoBody>>}
    ELSE IF ReadsHeader(rn)
    THEN ({AppJson} \X PutPayloads) \cup ({AppJsonCharset} \X {OnlyX03})
         \cup ({NoHeader, TextPlain} \X {NoBody})
    ELSE IF ReadsBody(rn) THEN {Unread} \X PostPayloads
    ELSE {<<Unread, NoBody>>}

IsList(rn) == rn.ep = "coll" /\ rn.method = "GET"
IsCreate(rn) == rn.ep \in {"coll", "coll2"} /\ rn.method = "POST"

\* Slot r's run rn has taken a step with outcome res = [run, db]: the state
\* after it.  d is the run's binding, others says that another run is in
\* flight, solo that none has been since this run arrived.
Commit(r, rn, res, d, others, solo) ==
    /\ db' = [db EXCEPT ![d] = res.db]
    /\ run' = [run EXCEPT ![r] = IF res.run.pc = "done" THEN IdleRun ELSE res.run]
    /\ sqlNames' = IF res.run.stmts \cap TextKinds # {}
                   THEN sqlNames \cup {rn.table} ELSE sqlNames
    /\ ev' = IF res.run.pc = "done" \/ rn.pc = "createTable"
             THEN [stmt |-> rn.pc, responded |-> res.run.pc = "done",
                   run |-> IF res.run.pc = "done" THEN res.run ELSE IdleRun,
                   existed |-> rn.table \in DOMAIN db[d],
                   hadRows |-> /\ rn.table \in DOMAIN db[d]
                               /\ DOMAIN db[d][rn.table].rows # {},
                   solo |-> solo]
             ELSE NoEvent
    /\ alone' = IF res.run.pc = "done" /\ ~others THEN TRUE ELSE solo
    /\ deleted' = IF rn.pc = "delete" /\ res.run.resp.changes = 1
                  THEN deleted \cup {<<rn.table, rn.id>>} ELSE deleted
    /\ soloCreate' =
         IF /\ rn.ep = "coll" /\ rn.method = "POST" /\ res.run.pc = "done"
            /\ res.run.resp.success /\ ~res.run.tableCheck /\ solo
         THEN [table |-> rn.table, id_x |-> res.run.resp.id_x, body |-> res.run.body]
         ELSE IF IsList(rn) /\ rn.table = soloCreate.table /\ solo
         THEN soloCreate
         ELSE NoSolo
    /\ UNCHANGED <<variant, name, verdict>>

OthersInFlight(r) == \E s \in Slots \ {r} : InFlight(s)

\* Slot r's run rn takes one step: the awaited statement executes on the
\* run's database and the handler continues to its next await or response.
Step(r, rn) ==
    \E in \in Inputs(rn) :
        Commit(r, rn, Handler(rn, db[DbOf(rn.ep)], in[1], in[2]), DbOf(rn.ep),
               OthersInFlight(r),
               IF rn.pc = "recv" THEN ~OthersInFlight(r) ELSE alone)

\* Inserts that runs in flight may still issue on the table.
PendingCreates(ep, table) ==
    Cardinality({s \in Slots : InFlight(s) /\ IsCreate(run[s]) /\ run[s].table = table})
Inserted(ep, table) ==
    IF table \in DOMAIN db[DbOf(ep)] THEN db[DbOf(ep)][table].seq ELSE 0

\* A request may arrive at slot r: nothing is being sent, the slot is the
\* lowest free one, and the deployment serves the endpoint.
CanReceive(r, ep, method, table) ==
    /\ ~ev.responded
    /\ ~InFlight(r)
    /\ \A s \in Slots : s < r => InFlight(s)
    /\ ep \in EndpointsOf(variant)
    /\ method = "POST" => Inserted(ep, table) + PendingCreates(ep, table) < MaxRows

\* The run of a request as it arrives.
Arrived(ep, method, table, id) ==
    [NewRun(ep, method, table, id) EXCEPT !.goneAtRecv = <<table, id>> \in deleted]

\* A request arrives and its handler runs up to its first await.
ReceiveCollection(r) ==
    \E method \in {"GET", "POST", "OPTIONS", "DELETE"}, table \in {T, TBad} :
        /\ CanReceive(r, "coll", method, table)
        /\ Step(r, Arrived("coll", method, table, NoId))

ReceiveItem(r) ==
    \E method \in {"GET", "PUT", "DELETE", "OPTIONS", "PATCH"}, table \in {T, TBad},
       id \in Ids :
        /\ CanReceive(r, "item", method, table)
        /\ Step(r, Arrived("item", method, table, id))

ReceiveCollection2(r) ==
    \E method \in {"GET", "POST", "OPTIONS", "DELETE"}, table \in {T, U, TBad} :
        /\ CanReceive(r, "coll2", method, table)
        /\ Step(r, Arrived("coll2", method, table, NoId))

ReceiveItem1(r) ==
    \E method \in {"PUT", "DELETE", "OPTIONS", "GET"}, id \in Ids :
        /\ CanReceive(r, "item1", method, Contacts)
        /\ Step(r, Arrived("item1", method, Contacts, id))

\* The datastore executes the statement run r awaits.
Awaits(r, kind) == ~ev.responded /\ run[r].pc = kind

TableCheck(r) ==
    /\ Awaits(r, "tableCheck")
    /\ Step(r, run[r])
CreateTable(r) ==
    /\ Awaits(r, "createTable")
    /\ Step(r, run[r])
SelectAll(r) ==
    /\ Awaits(r, "selectAll")
    /\ Step(r, run[r])
SelectOne(r) ==
    /\ Awaits(r, "selectOne")
    /\ Step(r, run[r])
Exists(r) ==
    /\ Awaits(r, "exists")
    /\ Step(r, run[r])
Insert(r) ==
    /\ Awaits(r, "insert")
    /\ Step(r, run[r])
Update(r) ==
    /\ Awaits(r, "update")
    /\ Step(r, run[r])
Delete(r) ==
    /\ Awaits(r, "delete")
    /\ Step(r, run[r])

\* The runtime sends the response the handler returned.
Deliver ==
    /\ ev.responded
    /\ ev' = NoEvent
    /\ UNCHANGED <<db, variant, sqlNames, run, alone, deleted, soloCreate, name, verdict>>

Next ==
    \/ Deliver
    \/ \E r \in Slots :
        \/ ReceiveCollection(r)
        \/ ReceiveItem(r)
        \/ ReceiveCollection2(r)
        \/ ReceiveItem1(r)
        \/ TableCheck(r)
        \/ CreateTable(r)
        \/ SelectAll(r)
        \/ SelectOne(r)
        \/ Exists(r)
        \/ Insert(r)
        \/ Update(r)
        \/ Delete(r)

Spec == Init /\ [][Next]_vars

---------------------------------------------------------------------------
(* The validator harness: isValidTableName applied to strings over a small *)
(* alphabet.  A name is built freely up to ShortLen characters and then    *)
(* padded with its last character up to MaxPad.                            *)

Alphabet == {"a", "Z", "_", "7", ";", " ", "-"}

Grow(c) ==
    /\ \/ Len(name) < ShortLen
       \/ Len(name) >= ShortLen /\ Len(name) < MaxPad /\ c = name[Len(name)]
    /\ name' = Append(name, c)
    /\ verdict' = <<>>
    /\ UNCHANGED <<db, variant, sqlNames, run, ev, alone, deleted, soloCreate>>

Validate ==
    /\ verdict = <<>>
    /\ verdict' = <<isValidTableName(name)>>
    /\ UNCHANGED <<db, variant, sqlNames, run, ev, alone, deleted, soloCreate, name>>

NextValidator == (\E c \in Alphabet : Grow(c)) \/ Validate

SpecValidator == Init /\ [][NextValidator]_vars


---------------------------------------------------------------------------
(* Properties.                                                             *)

Letters == {"a", "b", "c", "d", "e", "f", "g", "h", "i", "j", "k", "l", "m",
            "n", "o", "p", "q", "r", "s", "t", "u", "v", "w", "x", "y", "z",
            "A", "B", "C", "D", "E", "F", "G", "H", "I", "J", "K", "L", "M",
            "N", "O", "P", "Q", "R", "S", "T", "U", "V", "W", "X", "Y", "Z"}
Digits == {"0", "1", "2", "3", "4", "5", "6", "7", "8", "9"}

\* The stated shape of a table name, written without the matcher.
WellFormed(n) ==
    /\ Len(n) >= 1
    /\ n[1] \in Letters \cup {"_"}
    /\ \A i \in 1..Len(n) : n[i] \in Letters \cup Digits \cup {"_"}
    /\ Len(n) <= 50

\* C1: every table name that has appeared in the text of an issued SQL
\* statement, and the table of every run that has issued a statement, is a
\* well-formed name; a request with another name is answered without any
\* statement.
C1_OnlyValidNamesReachSql ==
    /\ \A n \in sqlNames : WellFormed(n)
    /\ \A r \in Slots : run[r].stmts # {} => WellFormed(run[r].table)
    /\ (ev.responded /\ ~WellFormed(ev.run.table)) => ev.run.stmts = {}

\* A create with an ill-formed table name has been rejected with 400 and
\* no statement, in a deployment that has issued statements for other
\* requests.
C1_Witness ==
    /\ ev.responded
    /\ ev.run.method = "POST"
    /\ ~WellFormed(ev.run.table)
    /\ ev.run.resp.status = 400
    /\ ev.run.stmts = {}
    /\ sqlNames # {}

\* C2: the validator answers TRUE exactly for the non-empty names whose
\* first character is a letter or underscore, whose characters are all
\* letters, digits or underscores, and whose length is at most 50.
C2_ValidatorCharacterised ==
    verdict # <<>> => (verdict[1] <=> WellFormed(name))

\* A name of 51 acceptable characters has been refused.
C2_Witness ==
    /\ verdict = <<FALSE>>
    /\ Len(name) = 51
    /\ name[1] \in Letters \cup {"_"}
    /\ \A i \in 1..Len(name) : name[i] \in Letters \cup Digits \cup {"_"}

FieldNames == {"x_01", "x_02", "x_03", "x_04", "x_05", "x_06", "x_07", "x_08",
               "x_09", "x_10", "x_11", "x_12", "x_13", "x_14", "x_15", "x_16",
               "x_17", "x_18", "x_19", "x_20"}

\* The recognized fields of a payload, its value for one of them, and the
\* row a payload alone describes.
Recognized(obj) == {c \in FieldNames : \E k \in 1..Len(obj) : obj[k][1] = c}
ValueOf(obj, c) == obj[CHOOSE k \in 1..Len(obj) : obj[k][1] = c][2]
ExpectedRow(obj) ==
    [c \in FieldNames |-> IF c \in Recognized(obj) THEN ValueOf(obj, c) ELSE "NULL"]

PB == db["DB_PENERBIT"]
RowsOf(D, t) == IF t \in DOMAIN D THEN D[t].rows ELSE NoRows
Stepped(r) == run'[r] # run[r]
DatastoreFaults == {"no such table", "table already exists"}
Faulted(resp) == \E k \in 1..Len(resp.error) : resp.error[k] \in DatastoreFaults

\* C3: whenever a run executes its CREATE TABLE IF NOT EXISTS, whatever the
\* other runs have done since its catalog check, the table is in the
\* catalog afterwards, a table that was already there keeps its rows and
\* its counter, a table that was not there starts empty and no other table
\* changes, and the run does not answer with a datastore fault.
C3_ProvisioningIdempotent ==
    [][\A r \in Slots :
         (run[r].pc = "createTable" /\ Stepped(r)) =>
            LET t == run[r].table
                D == db[DbOf(run[r].ep)]
                D2 == db'[DbOf(run[r].ep)]
            IN /\ t \in DOMAIN D2
               /\ DOMAIN D2 = DOMAIN D \cup {t}
               /\ \A n \in DOMAIN D : D2[n] = D[n]
               /\ t \notin DOMAIN D => D2[t] = [rows |-> NoRows, seq |-> 0]
               /\ ev'.stmt = "createTable"
               /\ ev'.responded => ~Faulted(ev'.run.resp)]_vars

\* A run has executed its CREATE TABLE IF NOT EXISTS on a table that
\* another run had provisioned and filled after this run's catalog check.
C3_Witness ==
    /\ ev.stmt = "createTable"
    /\ ev.existed
    /\ ev.hadRows
    /\ DOMAIN RowsOf(PB, T) # {}

\* C4: a create with at least one recognized field for a well-formed table
\* name that was absent at its catalog check, with no other run in flight
\* meanwhile, succeeds with a positive id_x and leaves the table holding
\* exactly the row the payload describes under that id; and a list of the
\* table that directly follows it answers with exactly that row.
C4_FreshCreateThenList ==
    /\ ( /\ ev.responded /\ ev.run.ep = "coll" /\ ev.run.method = "POST"
         /\ ev.solo /\ ~ev.run.tableCheck /\ WellFormed(ev.run.table)
         /\ ev.run.body.json /\ Recognized(ev.run.body.obj) # {} )
       => /\ ev.run.resp.status = 200
          /\ ev.run.resp.success
          /\ ev.run.resp.id_x > 0
          /\ "createTable" \in ev.run.stmts
          /\ RowsOf(PB, ev.run.table) =
                [i \in {ev.run.resp.id_x} |-> ExpectedRow(ev.run.body.obj)]
          /\ soloCreate = [table |-> ev.run.table, id_x |-> ev.run.resp.id_x,
                           body |-> ev.run.body]
    /\ ( /\ ev.responded /\ ev.run.ep = "coll" /\ ev.run.method = "GET"
         /\ soloCreate.id_x > 0 )
       => /\ ev.run.table = soloCreate.table
          /\ ev.run.resp.status = 200
          /\ ev.run.resp.success
          /\ ev.run.resp.count = 1
          /\ ev.run.resp.data =
                << [id_x |-> soloCreate.id_x, x |-> ExpectedRow(soloCreate.body.obj)] >>

\* The list that directly follows a fresh create of {x_05, note, x_01} has
\* answered.
C4_Witness ==
    /\ ev.responded /\ ev.run.ep = "coll" /\ ev.run.method = "GET"
    /\ soloCreate.id_x > 0
    /\ Recognized(soloCreate.body.obj) = {"x_01", "x_05"}
    /\ ev.run.resp.count = 1

\* C5: when the UPDATE of a PUT whose payload has exactly one recognized
\* field executes and the row is in the table, the run answers success with
\* changes = 1, and the database afterwards differs from the one before in
\* that field of that row only.
C5_UpdateFrame ==
    [][\A r \in Slots :
         (run[r].pc = "update" /\ Stepped(r)) =>
            LET t == run[r].table
                id == run[r].id
                obj == run[r].body.obj
                D == db["DB_PENERBIT"]
                D2 == db'["DB_PENERBIT"]
            IN ( /\ Cardinality(Recognized(obj)) = 1
                 /\ t \in DOMAIN D
                 /\ id \in DOMAIN D[t].rows )
               => LET c == CHOOSE f \in Recognized(obj) : TRUE IN
                  /\ ev'.responded
                  /\ ev'.run.resp.status = 200
                  /\ ev'.run.resp.success
                  /\ ev'.run.resp.changes = 1
                  /\ D2 = [D EXCEPT ![t].rows[id][c] = ValueOf(obj, c)]
                  /\ db' = [db EXCEPT !["DB_PENERBIT"] = D2]]_vars

\* An update of one field has answered changes = 1 on a table of two rows.
C5_Witness ==
    /\ ev.responded /\ ev.stmt = "update"
    /\ Cardinality(Recognized(ev.run.body.obj)) = 1
    /\ ev.run.resp.changes = 1
    /\ Cardinality(DOMAIN RowsOf(PB, ev.run.table)) = 2

\* A DELETE request that was received after a DELETE statement had removed
\* its row is answered 404 without a DELETE statement.
SecondDeleteNotFound ==
    ( /\ ev.responded /\ ev.run.ep = "item" /\ ev.run.method = "DELETE"
      /\ ev.run.goneAtRecv )
    => /\ ev.run.resp.status = 404
       /\ "delete" \notin ev.run.stmts

\* C6: when the DELETE of a run executes and the row is in the table, the
\* run answers success with changes = 1 and the database afterwards is the
\* one before without that row; and a delete of the same id received after
\* that is answered 404 and issues no DELETE.
C6_DeleteThenGone ==
    [][ /\ \A r \in Slots :
             (run[r].pc = "delete" /\ Stepped(r)) =>
                LET t == run[r].table
                    id == run[r].id
                    D == db["DB_PENERBIT"]
                    D2 == db'["DB_PENERBIT"]
                IN (t \in DOMAIN D /\ id \in DOMAIN D[t].rows)
                   => /\ ev'.responded
                      /\ ev'.run.resp.status = 200
                      /\ ev'.run.resp.success
                      /\ ev'.run.resp.changes = 1
                      /\ D2 = [D EXCEPT ![t].rows =
                                  [i \in DOMAIN D[t].rows \ {id} |-> D[t].rows[i]]]
                      /\ db' = [db EXCEPT !["DB_PENERBIT"] = D2]
        /\ SecondDeleteNotFound' ]_vars

\* A second delete of a deleted id has been answered 404 while another row
\* is still in the table.
C6_Witness ==
    /\ ev.responded /\ ev.run.ep = "item" /\ ev.run.method = "DELETE"
    /\ ev.run.goneAtRecv
    /\ ev.run.resp.status = 404
    /\ DOMAIN RowsOf(PB, ev.run.table) # {}

\* C7: a GET of an id on a well-formed table name leaves the table in the
\* catalog; it is answered 404 "not found" when the id is not in the table;
\* and when the table was absent at the catalog check and no other run was
\* in flight, the run has provisioned it, it has no rows, and the answer is
\* that 404.
C7_GetMissing ==
    ( /\ ev.responded /\ ev.run.ep = "item" /\ ev.run.method = "GET"
      /\ WellFormed(ev.run.table) /\ ev.run.id > 0 )
    => /\ ev.run.table \in DOMAIN PB
       /\ ~Faulted(ev.run.resp)
       /\ ev.run.id \notin DOMAIN RowsOf(PB, ev.run.table)
            => /\ ev.run.resp.status = 404
               /\ ev.run.resp.error = <<"Record not found in table">>
       /\ (~ev.run.tableCheck /\ ev.solo)
            => /\ "createTable" \in ev.run.stmts
               /\ RowsOf(PB, ev.run.table) = NoRows
               /\ ev.run.resp.status = 404

\* A GET on a table that did not exist has provisioned it and answered 404.
C7_Witness ==
    /\ ev.responded /\ ev.run.ep = "item" /\ ev.run.method = "GET"
    /\ ~ev.run.tableCheck /\ ev.solo
    /\ "createTable" \in ev.run.stmts
    /\ ev.run.resp.status = 404

\* A create on an existing table whose payload holds no recognized field.
EmptyCreate(rn) ==
    /\ rn.ep = "coll" /\ rn.method = "POST"
    /\ WellFormed(rn.table)
    /\ rn.body.json /\ Recognized(rn.body.obj) = {}

\* Such a create is answered with the empty-field-set failure and has
\* issued no INSERT.
EmptyCreateFails ==
    (ev.responded /\ EmptyCreate(ev.run))
    => /\ ~ev.run.resp.success
       /\ ev.run.resp.status >= 400
       /\ ev.run.resp.error = <<"Failed to save record to table",
                                "At least one field (x_01 to x_20) is required">>
       /\ "insert" \notin ev.run.stmts

\* C8: a create whose payload holds no recognized field is answered with
\* the empty-field-set failure, issues no INSERT, and no step of it changes
\* the rows of its table.
C8_EmptyFieldSet ==
    [][ /\ \A r \in Slots :
             (EmptyCreate(run[r]) /\ Stepped(r)) =>
                /\ RowsOf(db'["DB_PENERBIT"], run[r].table)
                      = RowsOf(db["DB_PENERBIT"], run[r].table)
                /\ run'[r].pc # "insert"
        /\ EmptyCreateFails' ]_vars

\* A create holding only x_00, x_21, x_1 and X_01 has failed on a table
\* that holds a row.
C8_Witness ==
    /\ ev.responded /\ EmptyCreate(ev.run)
    /\ ev.run.body = UnknownKeys
    /\ ~ev.run.resp.success
    /\ DOMAIN RowsOf(PB, ev.run.table) # {}

\* A create that fails on its payload: the body is not JSON, or it holds
\* no recognized field.
PayloadFailure(rn) ==
    /\ rn.ep = "coll" /\ rn.method = "POST"
    /\ WellFormed(rn.table)
    /\ ~rn.body.json \/ Recognized(rn.body.obj) = {}

\* C9 as stated: a create that fails on its payload is answered with status
\* 400.
C9_PayloadFailureIs400 ==
    (ev.responded /\ PayloadFailure(ev.run)) => ev.run.resp.status = 400

\* A PUT whose Content-Type header has been read and is absent or without
\* application/json.
NotJson(rn) ==
    /\ rn.ep = "item" /\ rn.method = "PUT"
    /\ rn.ctype \in {NoHeader, TextPlain}

InvalidNameMessage ==
    <<"Invalid table name. Only alphanumeric characters and underscores allowed.">>

\* C11 as stated: a request of any method whose table name is ill-formed is
\* answered with status 400 and the invalid-table-name message.
C11_InvalidNameIs400 ==
    (ev.responded /\ ~WellFormed(ev.run.table))
    => /\ ev.run.resp.status = 400
       /\ ev.run.resp.error = InvalidNameMessage

\* C11, amended: a request whose table name is ill-formed is answered with
\* status 400 and the invalid-table-name message for every method other
\* than OPTIONS, and with the empty preflight response (no error status,
\* no error message) for OPTIONS; it is never a success response.
C11_InvalidNameIs400ExceptPreflight ==
    (ev.responded /\ ~WellFormed(ev.run.table))
    => /\ ~ev.run.resp.success
       /\ ev.run.method # "OPTIONS"
            => /\ ev.run.resp.status = 400
               /\ ev.run.resp.error = InvalidNameMessage
       /\ ev.run.method = "OPTIONS"
            => /\ ev.run.resp.status \in 200..299
               /\ ev.run.resp.error = <<>>

\* A PATCH to the item endpoint with an ill-formed table name has been
\* answered 400.
C11_Witness ==
    /\ ev.responded /\ ev.run.ep = "item" /\ ev.run.method = "PATCH"
    /\ ~WellFormed(ev.run.table)
    /\ ev.run.resp.status = 400

FieldOrder == <<"x_01", "x_02", "x_03", "x_04", "x_05", "x_06", "x_07", "x_08",
                "x_09", "x_10", "x_11", "x_12", "x_13", "x_14", "x_15", "x_16",
                "x_17", "x_18", "x_19", "x_20">>

\* The recognized fields of a payload in ascending index order, and the
\* payload's values for them in that order.
AscendingFields(obj) == SelectSeq(FieldOrder, LAMBDA c : c \in Recognized(obj))
AscendingValues(obj) ==
    LET fields == AscendingFields(obj) IN
    [i \in 1..Len(fields) |-> ValueOf(obj, fields[i])]

\* C12: the columns and the bind values of the INSERT or UPDATE a run
\* awaits are the recognized fields of its payload in ascending index order
\* and the payload's values for them; a create with a recognized field is
\* answered success whatever other keys the payload holds, and a success
\* response of a create or an update names exactly those columns, in that
\* order.
C12_AscendingFieldOrder ==
    /\ \A r \in Slots :
         (run[r].pc \in {"insert", "update"} /\ run[r].ep # "item1") =>
            /\ Recognized(run[r].body.obj) # {}
            /\ Encode(run[r].body.obj) =
                  [columns |-> AscendingFields(run[r].body.obj),
                   values |-> AscendingValues(run[r].body.obj)]
    /\ ( /\ ev.responded /\ ev.run.ep = "coll" /\ ev.run.method = "POST"
         /\ WellFormed(ev.run.table) /\ ev.run.body.json
         /\ Recognized(ev.run.body.obj) # {} )
       => ev.run.resp.success
    /\ ( /\ ev.responded /\ ev.run.resp.success /\ ev.run.method \in {"POST", "PUT"}
         /\ ev.run.ep # "item1" )
       => ev.run.resp.fields = AscendingFields(ev.run.body.obj)

\* An update whose payload lists x_05, note, x_01 in that order has been
\* answered success for the columns x_01, x_05.
C12_Witness ==
    /\ ev.responded /\ ev.run.method = "PUT" /\ ev.run.resp.success
    /\ ev.run.body = X05NoteX01
    /\ ev.run.resp.fields = <<"x_01", "x_05">>

---------------------------------------------------------------------------
(* Datastore faults.  The handlers' statements fail when the table they    *)
(* name is not in the catalog; here a table is dropped from outside the    *)
(* handlers (the datastore's console or a migration) while a run awaits a  *)
(* statement on it, so that the statement raises "no such table".          *)

DropTable(d) ==
    \E t \in DOMAIN db[d] :
        /\ ~ev.responded
        /\ \E s \in Slots : /\ run[s].pc \in TextKinds \ {"createTable"}
                            /\ run[s].table = t
                            /\ DbOf(run[s].ep) = d
        /\ db' = [db EXCEPT ![d] = [n \in DOMAIN @ \ {t} |-> @[n]]]
        /\ ev' = NoEvent
        /\ UNCHANGED <<variant, sqlNames, run, alone, deleted, soloCreate, name, verdict>>

NextFaults == Next \/ \E d \in DBs : DropTable(d)

SpecFaults == Init /\ [][NextFaults]_vars

\* A response is a success (status 200, no error), the empty preflight
\* response, or an error response with an error message.
ResponseShape ==
    ev.responded =>
        /\ ev.run.resp.success => (ev.run.resp.status = 200 /\ ev.run.resp.error = <<>>)
        /\ ~ev.run.resp.success =>
              \/ ev.run.method = "OPTIONS" /\ ev.run.resp = EmptyResp
              \/ /\ ev.run.resp.status \in {400, 404, 405, 500}
                 /\ Len(ev.run.resp.error) >= 1
        /\ Faulted(ev.run.resp) => ev.run.resp.status \in {400, 500}

\* C13: when the statement a run awaits executes on a catalog that does not
\* hold its table, the run answers with an error response of status 400 or
\* 500 that carries the fault's message, never with success, and the
\* database is unchanged; and every response that is not a success (other
\* than the empty preflight response) carries an error message.
C13_FaultsAreReported ==
    [][ /\ \A r \in Slots :
             ( /\ run[r].pc \in {"selectAll", "selectOne", "exists", "insert",
                                 "update", "delete"}
               /\ Stepped(r)
               /\ run[r].table \notin DOMAIN db[DbOf(run[r].ep)] )
             => /\ ev'.responded
                /\ ~ev'.run.resp.success
                /\ ev'.run.resp.status \in {400, 500}
                /\ Faulted(ev'.run.resp)
                /\ db' = db
        /\ ResponseShape' ]_vars

\* The UPDATE of a PUT has failed on a dropped table and the PUT has been
\* answered 400.
C13_Witness ==
    /\ ev.responded /\ ev.stmt = "update"
    /\ Faulted(ev.run.resp)
    /\ ev.run.resp.status = 400
    /\ ~ev.run.resp.success

\* C14: a PUT passes its existence check and issues its UPDATE in two
\* steps, and a DELETE of the same id can run between them: whenever the
\* UPDATE of a PUT executes and the row is not in the table, a DELETE
\* statement has removed it since the check, the UPDATE changes nothing, and
\* the PUT is answered success (status 200) with changes = 0.
C14_UpdateAfterDeleteIsSuccess ==
    [][\A r \in Slots :
         ( /\ run[r].pc = "update" /\ Stepped(r)
           /\ run[r].table \in DOMAIN db["DB_PENERBIT"]
           /\ run[r].id \notin DOMAIN db["DB_PENERBIT"][run[r].table].rows )
         => /\ <<run[r].table, run[r].id>> \in deleted
            /\ ~run[r].goneAtRecv
            /\ "exists" \in run[r].stmts
            /\ ev'.responded
            /\ ev'.run.resp.status = 200
            /\ ev'.run.resp.success
            /\ ev'.run.resp.changes = 0
            /\ db' = db]_vars

\* A PUT has been answered success with changes = 0 for a row that a
\* DELETE removed after the PUT was received.
C14_Witness ==
    /\ ev.responded /\ ev.stmt = "update"
    /\ ev.run.resp.success /\ ev.run.resp.status = 200
    /\ ev.run.resp.changes = 0
    /\ ~ev.run.goneAtRecv
    /\ <<ev.run.table, ev.run.id>> \in deleted
    /\ ev.run.id \notin DOMAIN RowsOf(PB, ev.run.table)

LB == db["DB_LATIHAN1"]

\* A PUT or DELETE of the fixed-schema item endpoint that has been answered
\* at its existence check.
AnsweredAtExists1 ==
    /\ ev.responded /\ ev.run.ep = "item1" /\ ev.stmt = "exists"

MissingRowOrTable1 ==
    AnsweredAtExists1 =>
        /\ Contacts \notin DOMAIN LB
             => /\ ev.run.resp.status = 400
                /\ ev.run.resp.error =
                     <<IF ev.run.method = "PUT" THEN "Update failed" ELSE "Delete failed",
                       "no such table">>
        /\ (Contacts \in DOMAIN LB /\ ev.run.id \notin DOMAIN LB[Contacts].rows)
             => /\ ev.run.resp.status = 404
                /\ ev.run.resp.error = <<"Contact not found">>

DataBearing(rn) ==
    /\ WellFormed(rn.table)
    /\ \/ rn.ep = "coll" /\ rn.method \in {"GET", "POST"}
       \/ rn.ep = "item" /\ rn.method \in {"GET", "PUT", "DELETE"} /\ rn.id > 0

\* C16 as stated: once a data-bearing request of the auto-create variant
\* has been answered, its table is in the catalog.
C16_AnsweredImpliesProvisioned ==
    (ev.responded /\ DataBearing(ev.run)) => ev.run.table \in DOMAIN PB

\* A create whose body is not JSON.
UnparseableCreate(rn) == rn.ep = "coll" /\ rn.method = "POST" /\ ~rn.body.json

\* C16, amended: once a data-bearing request of the auto-create variant has
\* been answered, it has run the catalog check and its table is in the
\* catalog, unless it is a create whose body is not JSON: that one is
\* answered "Invalid JSON data" before any statement.
C16_ProvisionedUnlessUnparseable ==
    (ev.responded /\ DataBearing(ev.run))
    => IF UnparseableCreate(ev.run)
       THEN /\ ev.run.stmts = {}
            /\ ev.run.resp.error = <<"Invalid JSON data">>
            /\ ~ev.run.resp.success
       ELSE /\ "tableCheck" \in ev.run.stmts
            /\ ev.run.table \in DOMAIN PB
            /\ ~ev.run.tableCheck => "createTable" \in ev.run.stmts

\* A PUT without a Content-Type header has been refused after it
\* provisioned its table.
C16_Witness ==
    /\ ev.responded /\ DataBearing(ev.run) /\ ev.run.method = "PUT"
    /\ ev.run.ctype = NoHeader
    /\ "createTable" \in ev.run.stmts
    /\ ev.run.resp.status = 400
    /\ ev.run.table \in DOMAIN PB

\* C17: a list that reaches its SELECT is answered success; its data holds
\* every row of the table exactly once, each with its stored fields, in
\* strictly descending id_x order, and count is the length of data (0 and
\* the empty sequence for a table without rows).
C17_ListIsTableDescending ==
    (ev.responded /\ ev.stmt = "selectAll")
    => LET data == ev.run.resp.data
           rows == RowsOf(db[DbOf(ev.run.ep)], ev.run.table)
       IN /\ ev.run.resp.status = 200
          /\ ev.run.resp.success
          /\ ev.run.resp.count = Len(data)
          /\ Len(data) = Cardinality(DOMAIN rows)
          /\ {data[i].id_x : i \in 1..Len(data)} = DOMAIN rows
          /\ \A i \in 1..Len(data) : data[i].x = rows[data[i].id_x]
          /\ \A i, j \in 1..Len(data) : i < j => data[i].id_x > data[j].id_x

\* A list has answered two rows, the newer first, the older one updated
\* since it was created.
C17_Witness ==
    /\ ev.responded /\ ev.stmt = "selectAll"
    /\ ev.run.resp.count = 2
    /\ ev.run.resp.data[1].id_x = 2
    /\ ev.run.resp.data[2].x # ExpectedRow(OnlyX03.obj)
    /\ ev.run.resp.data[2].x # ExpectedRow(X05NoteX01.obj)

\* The checks a PUT of the auto-create item endpoint has passed, in order.
PassedContentType(rn) == rn.ctype \in {AppJson, AppJsonCharset}
PassedParse(rn) == PassedContentType(rn) /\ rn.body.json
PassedFields(rn) == PassedParse(rn) /\ Recognized(rn.body.obj) # {}

\* The answer to a PUT that was answered before its UPDATE.
PutRejection ==
    ( /\ ev.responded /\ ev.run.ep = "item" /\ ev.run.method = "PUT"
      /\ DataBearing(ev.run) /\ "update" \notin ev.run.stmts )
    => IF ~PassedContentType(ev.run)
       THEN /\ ev.run.resp.status = 400
            /\ ev.run.resp.error = <<"Update failed in table",
                                     "Content-Type must be application/json">>
            /\ "exists" \notin ev.run.stmts
       ELSE IF ~PassedParse(ev.run)
       THEN /\ ev.run.resp.status = 400
            /\ ev.run.resp.error = <<"Update failed in table", "SyntaxError">>
            /\ "exists" \notin ev.run.stmts
       ELSE IF ev.run.id \notin DOMAIN RowsOf(PB, ev.run.table)
       THEN /\ ev.stmt = "exists"
            /\ ev.run.resp.status = 404
            /\ ev.run.resp.error = <<"Record not found in table">>
       ELSE /\ ev.stmt = "exists"
            /\ ~PassedFields(ev.run)
            /\ ev.run.resp.status = 400
            /\ ev.run.resp.error =
                 <<"Update failed in table",
                   "At least one field (x_01 to x_20) is required for update">>

\* C18: a PUT of the auto-create item endpoint is rejected by the first
\* check that fails in the order content type, body parse, row existence,
\* field subset (so a payload without a recognized field for an id that is
\* not in the table is answered 404), and a run issues its UPDATE only
\* after the content type, the parse, the existence SELECT and the field
\* check have passed.
C18_PutCheckOrder ==
    /\ PutRejection
    /\ \A r \in Slots :
         (run[r].ep = "item" /\ "update" \in run[r].stmts)
         => PassedFields(run[r]) /\ "exists" \in run[r].stmts
    /\ (ev.responded /\ ev.run.ep = "item" /\ "update" \in ev.run.stmts)
         => PassedFields(ev.run) /\ "exists" \in ev.run.stmts

\* A PUT of {} for an id that is not in the table has been answered 404.
C18_Witness ==
    /\ ev.responded /\ ev.run.ep = "item" /\ ev.run.method = "PUT"
    /\ ev.run.body = EmptyObject
    /\ ev.run.id \notin DOMAIN RowsOf(PB, ev.run.table)
    /\ ev.run.resp.status = 404

ItemMethods == {"GET", "PUT", "DELETE"}

\* C19: a request that the item endpoint takes past the preflight branch is
\* answered 400 "invalid table name" when its table name is ill-formed,
\* whatever its id and method; 400 "no id" when the name is well-formed and
\* the id is missing, whatever its method; and 405 exactly when the name is
\* well-formed, the id present and the method none of GET, PUT, DELETE.
C19_ItemRejectPrecedence ==
    (ev.responded /\ ev.run.ep = "item" /\ ev.run.method # "OPTIONS")
    => /\ ~WellFormed(ev.run.table)
            => /\ ev.run.resp.status = 400
               /\ ev.run.resp.error = InvalidNameMessage
       /\ (WellFormed(ev.run.table) /\ ev.run.id = 0 - 1)
            => /\ ev.run.resp.status = 400
               /\ ev.run.resp.error = <<"No ID provided">>
       /\ ev.run.resp.status = 405
            <=> /\ WellFormed(ev.run.table)
                /\ ev.run.id > 0
                /\ ev.run.method \notin ItemMethods

\* A PATCH without an id and with an ill-formed table name has been
\* answered with the invalid-table-name response.
C19_Witness ==
    /\ ev.responded /\ ev.run.ep = "item" /\ ev.run.method = "PATCH"
    /\ ~WellFormed(ev.run.table)
    /\ ev.run.id = 0 - 1
    /\ ev.run.resp.error = InvalidNameMessage

\* A request of a generic-table endpoint that is answered before method
\* dispatch or by the method-not-allowed branch.
EarlyAnswered(rn) ==
    /\ rn.ep \in {"coll", "coll2", "item"}
    /\ \/ rn.method = "OPTIONS"
       \/ ~WellFormed(rn.table)
       \/ rn.ep = "item" /\ rn.id = 0 - 1
       \/ rn.ep = "item" /\ rn.method \notin ItemMethods
       \/ rn.ep \in {"coll", "coll2"} /\ rn.method \notin {"GET", "POST"}

NoStatementIssued ==
    (ev.responded /\ EarlyAnswered(ev.run))
    => /\ ev.stmt = "recv"
       /\ ev.run.stmts = {}
       /\ ~ev.run.resp.success

\* C20: a request answered by the preflight, invalid-table-name, missing-id
\* or method-not-allowed branch is answered in the step that receives it,
\* has issued no statement, and that step leaves both databases and the
\* set of names used in SQL text as they were.
C20_EarlyAnswersTouchNothing ==
    [][ /\ (ev'.responded /\ EarlyAnswered(ev'.run))
             => /\ db' = db
                /\ sqlNames' = sqlNames
                /\ run' = run
        /\ NoStatementIssued' ]_vars

\* A DELETE to the collection endpoint has been answered 405 and its table
\* is still unknown.
C20_Witness ==
    /\ ev.responded /\ ev.run.ep = "coll" /\ ev.run.method = "DELETE"
    /\ WellFormed(ev.run.table)
    /\ ev.run.resp.status = 405
    /\ ev.run.table \notin DOMAIN PB

\* C21: every DELETE statement of the auto-create item endpoint that
\* executes while its table exists is answered success (status 200).  If the
\* row is in the table, no DELETE statement had removed that id before, the
\* statement reports changes = 1 and the table afterwards is the one before
\* without that row.  If the row is not in the table, a DELETE statement of
\* another run removed it after this run's existence check, the statement
\* reports changes = 0 and the database is unchanged.
C21_ConcurrentDeletes ==
    [][\A r \in Slots :
         ( /\ run[r].ep = "item" /\ run[r].pc = "delete" /\ Stepped(r)
           /\ run[r].table \in DOMAIN db["DB_PENERBIT"] )
         => LET t == run[r].table
                id == run[r].id
                D == db["DB_PENERBIT"]
            IN /\ ev'.responded
               /\ ev'.run.resp.status = 200
               /\ ev'.run.resp.success
               /\ ~run[r].goneAtRecv
               /\ IF id \in DOMAIN D[t].rows
                  THEN /\ <<t, id>> \notin deleted
                       /\ ev'.run.resp.changes = 1
                       /\ db' = [db EXCEPT !["DB_PENERBIT"][t].rows =
                                    [i \in DOMAIN D[t].rows \ {id} |-> D[t].rows[i]]]
                       /\ deleted' = deleted \cup {<<t, id>>}
                  ELSE /\ <<t, id>> \in deleted
                       /\ ev'.run.resp.changes = 0
                       /\ db' = db
                       /\ deleted' = deleted]_vars

\* The second of two concurrent DELETEs of one id has been answered
\* success with changes = 0, and another row is still in the table.
C21_Witness ==
    /\ ev.responded /\ ev.run.ep = "item" /\ ev.stmt = "delete"
    /\ ev.run.resp.success /\ ev.run.resp.status = 200
    /\ ev.run.resp.changes = 0
    /\ ~ev.run.goneAtRecv
    /\ <<ev.run.table, ev.run.id>> \in deleted
    /\ DOMAIN RowsOf(PB, ev.run.table) # {}

\* C22: the field subset of a create or an update is the set of recognized
\* keys present in the payload, whatever their values.  An INSERT answered
\* 201 reports exactly those keys and stores the payload's value for each of
\* them, null included, and null for every other field; an UPDATE that finds
\* its row reports exactly those keys, sets each of them to the payload's
\* value, null included, and leaves every other field of the row as it was.
C22_PresenceNotValue ==
    [][\A r \in Slots :
         LET t == run[r].table
             obj == run[r].body.obj
             D == db["DB_PENERBIT"]
         IN /\ ( /\ run[r].ep = "coll" /\ run[r].pc = "insert" /\ Stepped(r)
                 /\ ev'.run.resp.success )
               => /\ {ev'.run.resp.fields[k] : k \in 1..Len(ev'.run.resp.fields)}
                       = Recognized(obj)
                  /\ db'["DB_PENERBIT"][t].rows[ev'.run.resp.id_x] = ExpectedRow(obj)
            /\ ( /\ run[r].ep = "item" /\ run[r].pc = "update" /\ Stepped(r)
                 /\ t \in DOMAIN D /\ run[r].id \in DOMAIN D[t].rows )
               => /\ ev'.run.resp.success
                  /\ {ev'.run.resp.fields[k] : k \in 1..Len(ev'.run.resp.fields)}
                       = Recognized(obj)
                  /\ \A c \in FieldNames :
                        db'["DB_PENERBIT"][t].rows[run[r].id][c] =
                            IF c \in Recognized(obj) THEN ValueOf(obj, c)
                            ELSE D[t].rows[run[r].id][c]]_vars

\* An update with x_03 = null has been answered on a row created with
\* x_03 = "c" alone, which now holds null in every field, next to a row
\* created with x_03 = null and x_01 = "a".
C22_Witness ==
    /\ ev.responded /\ ev.run.ep = "item" /\ ev.stmt = "update"
    /\ ev.run.body = NullX03 /\ ev.run.resp.success /\ ev.run.resp.changes = 1
    /\ ev.run.resp.fields = <<"x_03">>
    /\ ev.run.id \in DOMAIN RowsOf(PB, ev.run.table)
    /\ RowsOf(PB, ev.run.table)[ev.run.id] = NullRow
    /\ \E i \in DOMAIN RowsOf(PB, ev.run.table) :
          RowsOf(PB, ev.run.table)[i] = ExpectedRow(NullX03WithX01.obj)

\* A list or create of the reject-if-missing collection endpoint whose table
\* name is well formed and not in the catalog.
AbsentTable2(rn) ==
    /\ rn.ep = "coll2" /\ rn.method \in {"GET", "POST"}
    /\ WellFormed(rn.table) /\ rn.table \notin DOMAIN LB

\* C23 as stated: every list or create of the reject-if-missing variant for
\* a well-formed table name absent from the catalog is answered 404 without
\* a statement that names the table, and the catalog never gains a table.
C23_AbsentTableIs404 ==
    /\ variant = "reject-if-missing" => DOMAIN LB = {T}
    /\ (ev.responded /\ AbsentTable2(ev.run))
       => /\ ev.run.resp.status = 404
          /\ ev.run.stmts \cap TextKinds = {}

\* C23, amended: in the reject-if-missing variant the catalog never gains a
\* table and no statement text ever names a table outside the catalog.  A
\* list, or a create whose body is JSON, for a well-formed table name absent
\* from the catalog is answered 404 after the catalog check alone; a create
\* whose body is not JSON is refused without success before any statement.
C23_AbsentTableNeverProvisioned ==
    /\ variant = "reject-if-missing"
       => /\ DOMAIN LB = {T}
          /\ sqlNames \subseteq {T}
    /\ (ev.responded /\ AbsentTable2(ev.run))
       => IF ev.run.method = "POST" /\ ~ev.run.body.json
          THEN /\ ev.run.stmts = {}
               /\ ~ev.run.resp.success
               /\ ev.run.resp.error = <<"Invalid JSON data">>
          ELSE /\ ev.run.resp.status = 404
               /\ ev.run.stmts = {"tableCheck"}

\* A create with a recognized field for a table absent from the catalog has
\* been answered 404.
C23_Witness ==
    /\ ev.responded /\ AbsentTable2(ev.run)
    /\ ev.run.method = "POST" /\ ev.run.body = OnlyX03
    /\ ev.run.resp.status = 404
    /\ ev.run.stmts = {"tableCheck"}
    /\ DOMAIN LB = {T}

\* The statements that write rows, and the statuses of a refusal.
WriteKinds == {"insert", "update", "delete"}
RefusalStatuses == {400, 404, 405, 415, 500}

\* Every table keeps its rows and its id counter; a table that appears is empty.
RowsKept ==
    \A d \in DBs :
        /\ DOMAIN db[d] \subseteq DOMAIN db'[d]
        /\ \A t \in DOMAIN db'[d] :
              db'[d][t] = IF t \in DOMAIN db[d] THEN db[d][t] ELSE EmptyTable

\* C24: in the auto-create variant a request answered with a refusal status
\* has issued no INSERT, UPDATE or DELETE statement, and every step that is
\* not the execution of such a statement, so every step of a refused
\* request, keeps the rows and field values of every table; the only change
\* such a step can make is to add an empty table to the catalog.
C24_RefusedRequestsKeepRows ==
    [][variant = "auto-create"
       => /\ (\A r \in Slots : ~(run[r].pc \in WriteKinds /\ Stepped(r)))
             => RowsKept
          /\ (ev'.responded /\ ev'.run.resp.status \in RefusalStatuses)
             => /\ ev'.run.stmts \cap WriteKinds = {}
                /\ ~ev'.run.resp.success
                /\ RowsKept]_vars

\* A PUT without a recognized field has been answered 400 after its
\* existence check found the row, and the row is still in its table.
C24_Witness ==
    /\ ev.responded /\ ev.run.ep = "item" /\ ev.run.method = "PUT"
    /\ ev.run.body = EmptyObject
    /\ ev.run.resp.status = 400
    /\ "exists" \in ev.run.stmts
    /\ ev.run.id \in DOMAIN RowsOf(PB, ev.run.table)
\* The ids a table has assigned so far are those up to its counter: every
\* row present and every row deleted has one of them.
AssignedWithinSeq ==
    \A t \in DOMAIN PB :
        /\ DOMAIN PB[t].rows \subseteq 1..PB[t].seq
        /\ \A p \in deleted : p[1] = t => p[2] \in 1..PB[t].seq

\* C25: in the auto-create variant every id present or deleted is at most
\* the table's counter; a create answered success returns an id that is
\* positive, one more than the counter, so greater than every id the table
\* assigned before, those of deleted rows included, and its row heads the
\* descending listing of the table; a step that is not an INSERT leaves the
\* counter of every table as it was.
C25_IdsNeverReused ==
    [][variant = "auto-create"
       => /\ AssignedWithinSeq
          /\ AssignedWithinSeq'
          /\ \A r \in Slots :
                ( /\ run[r].ep = "coll" /\ run[r].pc = "insert" /\ Stepped(r)
                  /\ ev'.run.resp.success )
                => LET t == run[r].table
                       id == ev'.run.resp.id_x
                   IN /\ id > 0
                      /\ id = PB[t].seq + 1
                      /\ id \notin DOMAIN PB[t].rows
                      /\ <<t, id>> \notin deleted
                      /\ \A i \in DOMAIN PB[t].rows : i < id
                      /\ \A p \in deleted : p[1] = t => p[2] < id
                      /\ PB'[t].seq = id
                      /\ id \in DOMAIN PB'[t].rows
                      /\ SelectAllSql(PB', t).results[1].id_x = id
          /\ (\A r \in Slots : ~(run[r].pc = "insert" /\ Stepped(r)))
             => \A t \in DOMAIN PB : PB'[t].seq = PB[t].seq]_vars

\* A create has been answered with id 2 after the row with id 1 was
\* deleted: the freed id is not handed out again.
C25_Witness ==
    /\ ev.responded /\ ev.run.ep = "coll" /\ ev.stmt = "insert"
    /\ ev.run.resp.success /\ ev.run.resp.id_x = 2
    /\ <<ev.run.table, 1>> \in deleted
    /\ DOMAIN RowsOf(PB, ev.run.table) = {2}

\* The database after the UPDATE of a PUT with payload obj on row id of t.
AfterPut(D, t, id, obj) ==
    UpdateSql(D, t, Encode(obj).columns, Encode(obj).values, id).db

\* Two PUT runs that both passed the existence check of the same row and
\* both await their UPDATE statement.
ConcurrentPuts(r, s) ==
    /\ r # s
    /\ run[r].ep = "item" /\ run[r].pc = "update"
    /\ run[s].ep = "item" /\ run[s].pc = "update"
    /\ run[r].table = run[s].table /\ run[r].id = run[s].id

\* C26: an UPDATE statement of a PUT whose row is in its table sets each
\* recognized field of its payload and leaves the other fields and the
\* other rows as they were.  When a second PUT to the same row awaits its
\* UPDATE at that moment, the row after the second statement holds, for
\* each field, the second payload's value if it names the field, else the
\* first payload's value if it names the field, else the value before both:
\* a field of both payloads ends with the value of the statement that ran
\* last; and when the payloads share no field the database is the same
\* whichever of the two statements runs first.
C26_ConcurrentPutsCompose ==
    [][\A r \in Slots :
         LET t == run[r].table
             id == run[r].id
             a == run[r].body.obj
         IN ( /\ run[r].ep = "item" /\ run[r].pc = "update" /\ Stepped(r)
              /\ t \in DOMAIN PB /\ id \in DOMAIN PB[t].rows )
            => /\ \A c \in FieldNames :
                     PB'[t].rows[id][c] =
                        IF c \in Recognized(a) THEN ValueOf(a, c) ELSE PB[t].rows[id][c]
               /\ DOMAIN PB'[t].rows = DOMAIN PB[t].rows
               /\ \A i \in DOMAIN PB[t].rows \ {id} : PB'[t].rows[i] = PB[t].rows[i]
               /\ \A s \in Slots :
                     ConcurrentPuts(r, s)
                     => LET b == run[s].body.obj
                            final == AfterPut(PB', t, id, b)
                            swapped == AfterPut(AfterPut(PB, t, id, b), t, id, a)
                        IN /\ \A c \in FieldNames :
                                 final[t].rows[id][c] =
                                    IF c \in Recognized(b) THEN ValueOf(b, c)
                                    ELSE IF c \in Recognized(a) THEN ValueOf(a, c)
                                    ELSE PB[t].rows[id][c]
                           /\ \A i \in DOMAIN PB[t].rows \ {id} :
                                 final[t].rows[i] = PB[t].rows[i]
                           /\ Recognized(a) \cap Recognized(b) = {}
                              => final = swapped]_vars

\* The UPDATE of a PUT with x_03 has been answered on a row created
\* without x_03, while a PUT with x_05 and x_01 to the same row, whose
\* existence check has passed, still awaits its UPDATE.
C26_Witness ==
    /\ ev.responded /\ ev.run.ep = "item" /\ ev.stmt = "update"
    /\ ev.run.body = OnlyX03 /\ ev.run.resp.changes = 1
    /\ \E s \in Slots :
          /\ run[s].ep = "item" /\ run[s].pc = "update"
          /\ run[s].body = X05NoteX01
          /\ run[s].table = ev.run.table /\ run[s].id = ev.run.id
          /\ RowsOf(PB, run[s].table)[run[s].id] = ExpectedRow(OnlyX03.obj)

\* The UPDATE of a PUT with x_03 = "c" has been answered while a PUT with
\* x_03 = null to the same row still awaits its UPDATE: the payloads overlap.
C26_WitnessOverlap ==
    /\ ev.responded /\ ev.run.ep = "item" /\ ev.stmt = "update"
    /\ ev.run.body = OnlyX03 /\ ev.run.resp.changes = 1
    /\ \E s \in Slots :
          /\ run[s].ep = "item" /\ run[s].pc = "update"
          /\ run[s].body = NullX03
          /\ run[s].table = ev.run.table /\ run[s].id = ev.run.id

---------------------------------------------------------------------------
(* Completion.  The datastore call a run awaits returns, with a result or  *)
(* a fault, once it executes: StatementReturns(r) is that step.  A call    *)
(* can execute whenever no response is being sent, which is the case again *)
(* and again, so strong fairness on it states that every awaited call      *)
(* eventually returns; the runtime sends a returned response (Deliver),    *)
(* which stays ready until it is sent, so weak fairness is enough there.   *)

StatementReturns(r) ==
    \/ TableCheck(r)
    \/ CreateTable(r)
    \/ SelectAll(r)
    \/ SelectOne(r)
    \/ Exists(r)
    \/ Insert(r)
    \/ Update(r)
    \/ Delete(r)

\* Run r awaits a datastore call that can execute: its statement action is
\* enabled exactly then.
Waiting(r) == InFlight(r) /\ ~ev.responded
WaitingIsEnabled == \A r \in Slots : Waiting(r) <=> ENABLED <<StatementReturns(r)>>_vars

\* The awaited call of run r returned: the only steps that change a run in flight.
Returned(r) == InFlight(r) /\ run'[r] # run[r]

\* SF_vars(StatementReturns(r)), written with the enabling condition
\* Waiting(r) and the step Returned(r) in place of the action.
EventuallyReturns(r) == <>[](~Waiting(r)) \/ []<><<Returned(r)>>_vars

SpecLive ==
    /\ Init
    /\ [][Next]_vars
    /\ WF_vars(Deliver)
    /\ \A r \in Slots : EventuallyReturns(r)

\* The position of an await in a handler: the catalog check, the CREATE
\* TABLE, the first statement on the table, the write after an existence check.
Rank(pc) ==
    CASE pc = "recv" -> 0
      [] pc = "tableCheck" -> 1
      [] pc = "createTable" -> 2
      [] pc \in {"selectAll", "selectOne", "exists", "insert"} -> 3
      [] pc \in {"update", "delete"} -> 4
      [] OTHER -> 5

SameRequest(a, b) ==
    /\ a.ep = b.ep /\ a.method = b.method /\ a.table = b.table /\ a.id = b.id

\* A run in flight changes only when the call it awaits returns; it then
\* either awaits a later statement of the same request, one it had not
\* issued before, or ends with the one response of that request.
OneResponseNoLoop ==
    [][\A r \in Slots :
         (InFlight(r) /\ Stepped(r))
         => /\ ~ev.responded
            /\ run[r].pc \in TextKinds \cup {"tableCheck"}
            /\ IF InFlight(r)'
               THEN /\ SameRequest(run'[r], run[r])
                    /\ Rank(run'[r].pc) > Rank(run[r].pc)
                    /\ run'[r].pc \notin run[r].stmts
                    /\ run'[r].stmts = run[r].stmts \cup {run'[r].pc}
                    /\ ~ev'.responded
               ELSE /\ ev'.responded
                    /\ ev'.run.pc = "done"
                    /\ SameRequest(ev'.run, run[r])
                    /\ ev'.run.resp.status \in {200, 400, 404, 405, 500}
                    /\ \A s \in Slots \ {r} : run'[s] = run[s]]_vars

\* C27: when every awaited datastore call eventually returns, every run in
\* flight is eventually answered; an answer is the one response of its
\* request, and until then the run only moves forward through its awaits,
\* each statement issued once.
C27_EveryRequestAnswered ==
    /\ OneResponseNoLoop
    /\ \A r \in Slots : InFlight(r) ~> ~InFlight(r)

\* A create that provisioned its table, so awaited three datastore calls,
\* has been answered.
C27_Witness ==
    /\ ev.responded /\ ev.run.ep = "coll" /\ ev.run.method = "POST"
    /\ ev.run.stmts = {"tableCheck", "createTable", "insert"}
    /\ ev.run.resp.success
    /\ \A r \in Slots : ~InFlight(r)

=============================================================================
